---- MODULE Spec2Model ----
(***************************************************************************)
(* Vehicle ledger (Trips, Fuelings) and review votes of the kontado API.   *)
(*                                                                         *)
(* Quantities are fixed-point integers: litres and kilometres are counted  *)
(* in units of 10^-5 (the precision of toDecimalPlaces(5)); consumption    *)
(* rates are whole km/L.  With these inputs every Decimal the handlers     *)
(* compute is an exact multiple of the unit, so integer arithmetic is the  *)
(* handlers' arithmetic.                                                   *)
(*                                                                         *)
(* Spec       : every request runs alone, one action per route handler.    *)
(* SpecFuel   : the same, for the Fueling routes.                          *)
(* SpecCreate : two create requests in flight, one step per store          *)
(*              statement; a $transaction callback that throws is rolled   *)
(*              back, and the statements of concurrent requests interleave *)
(*              (no handler sets an isolation level or takes a lock).      *)
(* SpecEdit   : the same, for Trip create, PATCH and DELETE.               *)
(* SpecVote   : two vote submissions in flight, one step per statement.    *)
(* SpecTally  : votes of up to five reviewers, one action per submission.  *)
(* SpecStation: two station requests in flight (create station, report     *)
(*              price, propose edit), one step per store statement.        *)
(* SpecTrip   : the Trip routes as in Spec, each step recording the        *)
(*              request it served and the answer.                          *)
(* SpecLedger : every modelled route that names a vehicle, one request at  *)
(*              a time.                                                    *)
(* SpecVehicle: two vehicle-create requests in flight, one step per store  *)
(*              statement.                                                 *)
(***************************************************************************)
EXTENDS Integers, FiniteSets, Sequences, TLC

\* ------------------------------------------------------------ bounds
\* Requests started in one behaviour; a new row's id is its request number.
MaxReq == 2
\* Requests started in one behaviour of SpecCreate / SpecEdit.
MaxConcReq == 3
\* Vote submissions started in one behaviour of SpecVote.
MaxVotes == 3
\* Vote submissions in one behaviour of SpecTally.
MaxTally == 5
\* Station requests started in one behaviour of SpecStation.
MaxSt == 2

\* Trips created in one behaviour of SpecTrip.
MaxTripReq == 1
\* Vehicle-create requests started in one behaviour of SpecVehicle.
MaxVehReq == 3

\* ------------------------------------------------------------ constants
\* 10^5: fuelConsumed is rounded to 5 decimal places.
Scale == 100000
\* An optional body field that the request does not carry (undefined).
Absent == -1

Users == {"u1", "u2"}
\* v1 (owner u1) is the vehicle the requests log events on; v2 (owner u2)
\* is a second vehicle that a request path may name.
VehicleIds == {"v1", "v2"}
LedgerVehicles == {"v1"}
\* <<requester, path vehicle>> of PATCH and DELETE requests: the owner, the
\* other user, and the owner under the other vehicle's path.
EditRequesters == {<<"u1", "v1">>, <<"u2", "v1">>, <<"u1", "v2">>}
\* Request bodies.  0 is a value the validators refuse; Absent fields occur
\* in PATCH bodies only; other: the body carries startTime, endTime,
\* routePath or notes.
Body(d, r, o) == [distance |-> d, consumptionRateUsed |-> r, other |-> o]
CreateTripBodies ==
  {Body(100 * Scale, 10, TRUE), Body(50 * Scale, 3, TRUE), Body(0, 10, TRUE)}
UpdateTripBodies ==
  {Body(100 * Scale, Absent, FALSE), Body(50 * Scale, 10, FALSE),
   Body(Absent, 3, TRUE), Body(Absent, Absent, TRUE), Body(Absent, Absent, FALSE)}
\* Bodies at the edges of the trip validators: a distance of one unit
\* (10^-5 km), a trip that burns 60 L, a zero distance, a zero rate.
EdgeCreateBodies ==
  {Body(100 * Scale, 10, TRUE), Body(1, 10, TRUE), Body(600 * Scale, 10, TRUE),
   Body(0, 10, TRUE), Body(100 * Scale, 0, TRUE)}
EdgeUpdateBodies ==
  {Body(Absent, Absent, TRUE), Body(1, Absent, FALSE), Body(600 * Scale, Absent, FALSE),
   Body(Absent, 3, FALSE), Body(0, Absent, FALSE)}
\* PATCH bodies of a fueling: cost, pricePerLiter, or another field only.
FuelingBody(c, p, o) == [cost |-> c, pricePerLiter |-> p, other |-> o]
UpdateFuelingBodies ==
  {FuelingBody(200, Absent, FALSE), FuelingBody(Absent, 4, FALSE),
   FuelingBody(200, 4, FALSE), FuelingBody(Absent, Absent, TRUE)}
\* cost and pricePerLiter in whole currency units.
CostInputs == {100}
PriceInputs == {Absent, 5}
\* gasStationId: "none" when the body carries none; "s9" names no station.
StationInputs == {"none", "s1", "s2", "s9"}
\* fuelTypeId: the FuelType rows, and the ids a body may carry ("f9": no row).
FuelTypes == {"f1", "f2"}
FuelTypeInputs == {"f1", "f2", "f9"}
\* The fuel type of the concurrent requests.
ConcFuelType == "f1"
Ids == 1 .. (MaxReq + MaxConcReq)
\* The user of the station requests, and the station ids a path may name.
StationUsers == {"u1"}
StationParams == {"s1", "s2", "s3", "s9"}
\* stationPrices of a create-station body (StationPriceSchema items).
Item(ft, price) == [fuelTypeId |-> ft, price |-> price]
CreatePriceLists == {<<>>, <<Item("f1", 5)>>, <<Item("f1", 5), Item("f9", 3)>>}
\* stationPrices of a propose-edit body (EditStationPriceSchema items).
EditItem(sp, ft, price) == [stationPriceId |-> sp, fuelTypeId |-> ft, price |-> price]
EditPriceLists == {<<>>, <<EditItem("sp3", "f1", 5)>>}
\* The changed fields of a propose-edit body (name, position, address).
ProposedChanges == {"changesA"}
\* The path and fuel type of a report-price request.
ReportParams == {"s1", "s9"}
ReportFuelTypes == {"f1", "f9"}
\* The reviewers of SpecTally, and the proposals they vote on.
Reviewers == {"r1", "r2", "r3", "r4", "r5"}
TallyTargets == {<<"gasStationProposal", "gp1">>, <<"stationPriceProposal", "pp1">>}
\* "Quorum reached? (e.g., >= 5 votes)", "Consensus reached? (e.g., > 60%
\* ACCEPT, 0 PROTEST)": the figures of the vote processing comment.
Quorum == 5
ConsensusPct == 60
\* enum ReviewVote
ReviewVote == {"ACCEPT", "REJECT", "PROTEST"}
\* The two vote routes and the proposal table each one reads.
Models == {"gasStationProposal", "stationPriceProposal"}
\* Proposal ids a request may name; "gp9" names no row.
ProposalIds == {"gp1", "gp2", "pp1", "pp2", "gp9"}
\* The route and proposal id of a vote request.
VoteTargets == {<<"gasStationProposal", "gp1">>, <<"gasStationProposal", "gp2">>,
                <<"gasStationProposal", "gp9">>, <<"stationPriceProposal", "pp1">>,
                <<"stationPriceProposal", "pp2">>}
\* Request handlers in flight at once.
Procs == {"p1", "p2"}
\* Concurrent requests come from the owner of v1.
ConcUsers == {"u1"}
ConcTripBodies == {Body(100 * Scale, 10, TRUE), Body(50 * Scale, 3, TRUE)}
ConcUpdateBodies == {Body(50 * Scale, Absent, FALSE), Body(Absent, 3, FALSE)}

VARIABLES
  veh,        \* vehicles: id -> [ownerId, plate, appOdometer, appFuelTank]
  auth,       \* UserVehicleAuthorization rows: set of <<userId, vehicleId>>
  trips,      \* Trip rows: id -> row
  fuelings,   \* Fueling rows: id -> row
  nreq,       \* requests started so far
  last,       \* the last finished request, and whether it was accepted (2xx)
  procs,      \* the ledger requests in flight, statement by statement
  applied,    \* (history) row id -> the <<odometer, tank>> change its create made
  stations,   \* GasStation rows: id -> [status, committed]
  sprices,    \* StationPrice rows: id -> row
  proposals,  \* model -> (proposal id -> row)
  reviews,    \* GasStationReview / StationPriceReview rows, a set of records
  vprocs,     \* the vote requests in flight
  nvotes,     \* vote requests started so far
  sprocs,     \* the station requests in flight
  nst,        \* station requests started so far
  vlog        \* (history) <<model, proposalId, reviewerId>> -> the vote last upserted

vars == <<veh, auth, trips, fuelings, nreq, last, procs, applied,
          stations, sprices, proposals, reviews, vprocs, nvotes, vlog, sprocs, nst>>
ledgerVars == <<veh, auth, trips, fuelings, nreq, last, procs, applied>>
voteVars == <<stations, sprices, proposals, reviews, vprocs, nvotes, vlog, sprocs, nst>>

\* ------------------------------------------------------------ helpers
InitOdometer == 0
InitFuelTank == 50 * Scale

Vehicle0 ==
  [v \in VehicleIds |->
     [ownerId |-> IF v = "v1" THEN "u1" ELSE "u2",
      plate |-> IF v = "v1" THEN "P1" ELSE "P2",
      appOdometer |-> InitOdometer,
      appFuelTank |-> InitFuelTank]]

\* Decimal division rounded half-up to 5 places: d in 10^-5 km, r in km/L,
\* result in 10^-5 L.
FuelConsumed(d, r) == (2 * d + r) \div (2 * r)

\* ownerId === userId || authorizedUsers.length > 0
HasAccess(a, vs, u, v) == vs[v].ownerId = u \/ <<u, v>> \in a

Idle ==
  [pc |-> "idle", op |-> "none", u |-> "none", v |-> "none", id |-> 0,
   dist |-> 0, rate |-> 0, fuel |-> 0, cost |-> 0, ppl |-> 0, vol |-> 0,
   moment |-> 0, deltaDistance |-> 0, deltaFuel |-> 0,
   status |-> 0]
\* The handler has answered: its request, the row it named and the status.
Done(q, st) == [Idle EXCEPT !.pc = "done", !.op = q.op, !.u = q.u, !.v = q.v,
                            !.id = q.id, !.status = st]

NoLast == [op |-> "none", ok |-> FALSE]

\* decimal.js Decimal.isPositive is (sign > 0), which holds of +0 too.
IsPositive(x) == x >= 0

\* (mutant) the rows are ordered by reportedAt ascending: the oldest price.
getOldestStationPrice(ps, st, ft) ==
  LET rows == {x \in DOMAIN ps : ps[x].gasStationId = st /\ ps[x].fuelTypeId = ft}
  IN IF rows = {} THEN Absent
     ELSE ps[CHOOSE x \in rows :
               \A y \in rows : ps[x].reportedAt <= ps[y].reportedAt].price

\* findFirst({ where: { gasStationId, fuelTypeId }, orderBy: { reportedAt:
\* 'desc' } }): the price of the first row of that order, or none.
getLatestStationPrice(ps, st, ft) ==
  LET rows == {x \in DOMAIN ps : ps[x].gasStationId = st /\ ps[x].fuelTypeId = ft}
  IN IF rows = {} THEN Absent
     ELSE ps[CHOOSE x \in rows :
               \A y \in rows : ps[y].reportedAt <= ps[x].reportedAt].price

\* cost.dividedBy(price).toNumber() in 10^-5 L; exact for the inputs drawn.
Volume(cost, price) == (cost * Scale) \div price

Store == [veh |-> veh, auth |-> auth, trips |-> trips, fuelings |-> fuelings,
          stations |-> stations, sprices |-> sprices]
Reply(S, st) == [veh |-> S.veh, trips |-> S.trips, fuelings |-> S.fuelings, status |-> st]

RECURSIVE SumOver(_, _, _)
SumOver(f, S, field) ==
  IF S = {} THEN 0
  ELSE LET x == CHOOSE y \in S : TRUE
       IN f[x][field] + SumOver(f, S \ {x}, field)

\* ------------------------------------------------------------ Spec: whole handlers
\* A $transaction whose callback throws leaves the store as it was.
Rollback(S, st) == Reply(S, st)

\* (mutant) the odometer is overwritten with the trip distance.
TripCreateOverwrite(S, id, u, v, d, r) ==
  IF ~(d > 0 /\ r > 0) \/ ~HasAccess(S.auth, S.veh, u, v) THEN Reply(S, 400)
  ELSE [veh |-> [S.veh EXCEPT ![v].appOdometer = d,
                              ![v].appFuelTank = @ - FuelConsumed(d, r)],
        trips |-> [t \in DOMAIN S.trips \cup {id} |->
                     IF t = id
                     THEN [vehicleId |-> v, userId |-> u, distance |-> d,
                           consumptionRateUsed |-> r, fuelConsumed |-> FuelConsumed(d, r),
                           momentAppFuelTank |-> S.veh[v].appFuelTank,
                           committed |-> TRUE,
                           tankBefore |-> S.veh[v].appFuelTank]
                     ELSE S.trips[t]],
        fuelings |-> S.fuelings,
        status |-> 200]

\* (mutant) a trip that needs more fuel than the tank holds is refused.
TripCreateChecksTank(S, id, u, v, d, r) ==
  IF ~(d > 0 /\ r > 0) THEN Reply(S, 400)                 \* createTripSchema
  ELSE IF d < 0 THEN Reply(S, 400)
  ELSE IF r <= 0 THEN Reply(S, 400)
  ELSE LET fuel == FuelConsumed(d, r) IN
  IF fuel < 0 THEN Reply(S, 500)
  ELSE IF v \notin DOMAIN S.veh THEN Rollback(S, 404)      \* getVehicleForUpdate
  ELSE IF ~HasAccess(S.auth, S.veh, u, v) THEN Rollback(S, 403)
  ELSE IF fuel > S.veh[v].appFuelTank THEN Rollback(S, 400)
  ELSE [veh |-> [S.veh EXCEPT ![v].appOdometer = @ + d,
                              ![v].appFuelTank = @ - fuel],
        trips |-> [t \in DOMAIN S.trips \cup {id} |->
                     IF t = id
                     THEN [vehicleId |-> v, userId |-> u, distance |-> d,
                           consumptionRateUsed |-> r, fuelConsumed |-> fuel,
                           momentAppFuelTank |-> S.veh[v].appFuelTank,
                           committed |-> TRUE,
                           tankBefore |-> S.veh[v].appFuelTank]
                     ELSE S.trips[t]],
        fuelings |-> S.fuelings,
        status |-> 200]

\* POST /:vehicleId/trips
TripCreateTx(S, id, u, v, d, r) ==
  IF ~(d > 0 /\ r > 0) THEN Reply(S, 400)                 \* createTripSchema
  ELSE IF d < 0 THEN Reply(S, 400)
  ELSE IF r <= 0 THEN Reply(S, 400)
  ELSE LET fuel == FuelConsumed(d, r) IN
  IF fuel < 0 THEN Reply(S, 500)
  ELSE IF v \notin DOMAIN S.veh THEN Rollback(S, 404)      \* getVehicleForUpdate
  ELSE IF ~HasAccess(S.auth, S.veh, u, v) THEN Rollback(S, 403)
  ELSE [veh |-> [S.veh EXCEPT ![v].appOdometer = @ + d,
                              ![v].appFuelTank = @ - fuel],
        trips |-> [t \in DOMAIN S.trips \cup {id} |->
                     IF t = id
                     THEN [vehicleId |-> v, userId |-> u, distance |-> d,
                           consumptionRateUsed |-> r, fuelConsumed |-> fuel,
                           momentAppFuelTank |-> S.veh[v].appFuelTank,
                           committed |-> TRUE,
                           tankBefore |-> S.veh[v].appFuelTank]
                     ELSE S.trips[t]],
        fuelings |-> S.fuelings,
        status |-> 200]

\* (mutant) the tank is incremented by the consumption delta.
TripUpdateWrongSign(S, u, v, t, d, r, other) ==
  IF t \notin DOMAIN S.trips \/ d = 0 \/ r = 0 \/ (d = Absent /\ r = Absent /\ ~other)
  THEN Reply(S, 404)
  ELSE LET cur == S.trips[t]
           newDistance == IF d # Absent THEN d ELSE cur.distance
           newRate == IF r # Absent THEN r ELSE cur.consumptionRateUsed
           newFuel == FuelConsumed(newDistance, newRate)
       IN
  IF cur.vehicleId # v \/ cur.userId # u THEN Reply(S, 403)
  ELSE [veh |-> [S.veh EXCEPT ![v].appOdometer = @ + (newDistance - cur.distance),
                              ![v].appFuelTank = @ + (newFuel - cur.fuelConsumed)],
        trips |-> [S.trips EXCEPT ![t].distance = newDistance,
                                  ![t].consumptionRateUsed = newRate,
                                  ![t].fuelConsumed = newFuel],
        fuelings |-> S.fuelings,
        status |-> 200]

\* (mutant) the vehicle gets the recomputed values, not their differences.
TripUpdateAppliesWhole(S, u, v, t, d, r, other) ==
  IF ~((d = Absent \/ d > 0) /\ (r = Absent \/ r > 0)) THEN Reply(S, 400)
  ELSE IF d = Absent /\ r = Absent /\ ~other THEN Reply(S, 400)
  ELSE IF t \notin DOMAIN S.trips THEN Rollback(S, 404)
  ELSE LET cur == S.trips[t] IN
  IF cur.vehicleId # v THEN Rollback(S, 400)
  ELSE IF cur.userId # u THEN Rollback(S, 403)
  ELSE LET newDistance == IF d # Absent /\ d # 0 THEN d ELSE cur.distance
           newRate == IF r # Absent /\ r # 0 THEN r ELSE cur.consumptionRateUsed
           recompute == IsPositive(newDistance) /\ IsPositive(newRate)
           newFuel == IF recompute THEN FuelConsumed(newDistance, newRate)
                      ELSE cur.fuelConsumed
           deltaDistance == newDistance
           deltaFuel == newFuel
       IN
  IF ~recompute /\ (d # Absent \/ r # Absent) THEN Rollback(S, 400)
  ELSE [veh |-> IF deltaDistance # 0 \/ deltaFuel # 0
                THEN [S.veh EXCEPT ![v].appOdometer = @ + deltaDistance,
                                   ![v].appFuelTank = @ - deltaFuel]
                ELSE S.veh,
        trips |-> [S.trips EXCEPT ![t].distance = newDistance,
                                  ![t].consumptionRateUsed = newRate,
                                  ![t].fuelConsumed = newFuel],
        fuelings |-> S.fuelings,
        status |-> 200]

\* PATCH /:vehicleId/trips/:tripId
TripUpdateTx(S, u, v, t, d, r, other) ==
  IF ~((d = Absent \/ d > 0) /\ (r = Absent \/ r > 0)) THEN Reply(S, 400)
  ELSE IF d = Absent /\ r = Absent /\ ~other THEN Reply(S, 400)
  ELSE IF t \notin DOMAIN S.trips THEN Rollback(S, 404)
  ELSE LET cur == S.trips[t] IN
  IF cur.vehicleId # v THEN Rollback(S, 400)
  ELSE IF cur.userId # u THEN Rollback(S, 403)
  ELSE LET newDistance == IF d # Absent /\ d # 0 THEN d ELSE cur.distance
           newRate == IF r # Absent /\ r # 0 THEN r ELSE cur.consumptionRateUsed
           recompute == IsPositive(newDistance) /\ IsPositive(newRate)
           newFuel == IF recompute THEN FuelConsumed(newDistance, newRate)
                      ELSE cur.fuelConsumed
           deltaDistance == newDistance - cur.distance
           deltaFuel == newFuel - cur.fuelConsumed
       IN
  IF ~recompute /\ (d # Absent \/ r # Absent) THEN Rollback(S, 400)
  ELSE [veh |-> IF deltaDistance # 0 \/ deltaFuel # 0
                THEN [S.veh EXCEPT ![v].appOdometer = @ + deltaDistance,
                                   ![v].appFuelTank = @ - deltaFuel]
                ELSE S.veh,
        trips |-> [S.trips EXCEPT ![t].distance = newDistance,
                                  ![t].consumptionRateUsed = newRate,
                                  ![t].fuelConsumed = newFuel],
        fuelings |-> S.fuelings,
        status |-> 200]

\* (mutant) the trip row is deleted and the tank is left as it is.
TripDeleteKeepsTank(S, u, v, t) ==
  IF t \notin DOMAIN S.trips THEN Reply(S, 404)
  ELSE IF S.trips[t].vehicleId # v \/ S.trips[t].userId # u THEN Reply(S, 403)
  ELSE [veh |-> [S.veh EXCEPT ![v].appOdometer = @ - S.trips[t].distance],
        trips |-> [x \in DOMAIN S.trips \ {t} |-> S.trips[x]],
        fuelings |-> S.fuelings,
        status |-> 200]

\* (mutant) the delete does not compare the trip's userId with the requester.
TripDeleteAnyUser(S, u, v, t) ==
  IF t \notin DOMAIN S.trips THEN Rollback(S, 404)
  ELSE LET cur == S.trips[t] IN
  IF cur.vehicleId # v THEN Rollback(S, 400)
  ELSE [veh |-> [S.veh EXCEPT ![v].appOdometer = @ - cur.distance,
                              ![v].appFuelTank = @ + cur.fuelConsumed],
        trips |-> [x \in DOMAIN S.trips \ {t} |-> S.trips[x]],
        fuelings |-> S.fuelings,
        status |-> 200]

\* DELETE /:vehicleId/trips/:tripId
TripDeleteTx(S, u, v, t) ==
  IF t \notin DOMAIN S.trips THEN Rollback(S, 404)
  ELSE LET cur == S.trips[t] IN
  IF cur.vehicleId # v THEN Rollback(S, 400)
  ELSE IF cur.userId # u THEN Rollback(S, 403)
  ELSE [veh |-> [S.veh EXCEPT ![v].appOdometer = @ - cur.distance,
                              ![v].appFuelTank = @ + cur.fuelConsumed],
        trips |-> [x \in DOMAIN S.trips \ {t} |-> S.trips[x]],
        fuelings |-> S.fuelings,
        status |-> 200]

\* POST /:vehicleId/expenses/fueling; st: gasStationId or "none".
ResolvedPrice(ps, st, ft, price) ==
  IF st # "none" /\ getLatestStationPrice(ps, st, ft) # Absent
  THEN getLatestStationPrice(ps, st, ft)
  ELSE price

FuelingRow(u, v, cost, ppl, moment, before) ==
  [vehicleId |-> v, userId |-> u, cost |-> cost, pricePerLiter |-> ppl,
   momentAppFuelTank |-> moment, committed |-> TRUE, tankBefore |-> before]

FuelingCreateTx(S, id, u, v, cost, price, st, ft) ==
  IF ~(cost > 0 /\ (price = Absent \/ price > 0)) THEN Reply(S, 400)
  ELSE IF st = "none" /\ price = Absent THEN Reply(S, 400)  \* createFuelingSchema refine
  ELSE IF v \notin DOMAIN S.veh THEN Reply(S, 404)          \* checkVehicleAccess
  ELSE IF ~HasAccess(S.auth, S.veh, u, v) THEN Reply(S, 403)
  ELSE IF ft \notin FuelTypes THEN Reply(S, 400)            \* fuelType.findUnique
  ELSE IF st # "none" /\ st \notin DOMAIN S.stations THEN Reply(S, 400)
  ELSE LET ppl == ResolvedPrice(S.sprices, st, ft, price) IN
  IF ppl = Absent THEN Reply(S, 500)                        \* new Decimal(undefined) throws
  ELSE IF ~(ppl > 0) THEN Reply(S, 500)
  ELSE LET volume == Volume(cost, ppl) IN
  IF volume < 0 THEN Reply(S, 500)
  ELSE [veh |-> [S.veh EXCEPT ![v].appFuelTank = @ + volume],
        trips |-> S.trips,
        fuelings |-> [f \in DOMAIN S.fuelings \cup {id} |->
                        IF f = id
                        THEN FuelingRow(u, v, cost, ppl, S.veh[v].appFuelTank,
                                        S.veh[v].appFuelTank)
                        ELSE S.fuelings[f]],
        status |-> 201]

\* PATCH /fueling/:fuelingId.  b: the body; a field that is not sent is
\* Absent.  The row is rewritten; the vehicle is not read or written.
FuelingUpdateTx(S, u, f, b) ==
  IF ~((b.cost = Absent \/ b.cost > 0) /\ (b.pricePerLiter = Absent \/ b.pricePerLiter > 0))
  THEN Reply(S, 400)                                        \* updateFuelingSchema
  ELSE IF b.cost = Absent /\ b.pricePerLiter = Absent /\ ~b.other THEN Reply(S, 400)
  ELSE IF f \notin DOMAIN S.fuelings THEN Reply(S, 404)
  ELSE IF ~HasAccess(S.auth, S.veh, u, S.fuelings[f].vehicleId) THEN Reply(S, 403)
  ELSE [veh |-> S.veh,
        trips |-> S.trips,
        fuelings |-> [S.fuelings EXCEPT
                        ![f].cost = IF b.cost # Absent THEN b.cost ELSE @,
                        ![f].pricePerLiter =
                           IF b.pricePerLiter # Absent THEN b.pricePerLiter ELSE @],
        status |-> 200]

\* (mutant) the delete takes the fueling's volume back out of the tank.
FuelingDeleteReverses(S, u, f) ==
  IF f \notin DOMAIN S.fuelings THEN Reply(S, 404)
  ELSE IF ~HasAccess(S.auth, S.veh, u, S.fuelings[f].vehicleId) THEN Reply(S, 403)
  ELSE [veh |-> [S.veh EXCEPT ![S.fuelings[f].vehicleId].appFuelTank =
                   @ - Volume(S.fuelings[f].cost, S.fuelings[f].pricePerLiter)],
        trips |-> S.trips,
        fuelings |-> [x \in DOMAIN S.fuelings \ {f} |-> S.fuelings[x]],
        status |-> 204]

\* DELETE /fueling/:fuelingId
FuelingDeleteTx(S, u, f) ==
  IF f \notin DOMAIN S.fuelings THEN Reply(S, 404)          \* checkExpenseAccess
  ELSE IF ~HasAccess(S.auth, S.veh, u, S.fuelings[f].vehicleId) THEN Reply(S, 403)
  ELSE [veh |-> S.veh,
        trips |-> S.trips,
        fuelings |-> [x \in DOMAIN S.fuelings \ {f} |-> S.fuelings[x]],
        status |-> 204]

\* A request ends: the store it leaves and its response.  A new row takes
\* the next id.
Finish(res, op) ==
  /\ veh' = res.veh
  /\ trips' = res.trips
  /\ fuelings' = res.fuelings
  /\ last' = [op |-> op, ok |-> res.status \in {200, 201, 204}]
  /\ nreq' = IF DOMAIN res.trips \cup DOMAIN res.fuelings
                 \subseteq DOMAIN trips \cup DOMAIN fuelings
              THEN nreq ELSE nreq + 1
  /\ UNCHANGED <<auth, procs, applied>>
  /\ UNCHANGED voteVars

TripCreate ==
  \E u \in Users, v \in LedgerVehicles, b \in CreateTripBodies :
    /\ nreq < MaxReq
    /\ Finish(TripCreateTx(Store, nreq + 1, u, v, b.distance, b.consumptionRateUsed),
              "tripCreate")

TripUpdate ==
  \E q \in EditRequesters, t \in 1 .. nreq, b \in UpdateTripBodies :
    Finish(TripUpdateTx(Store, q[1], q[2], t, b.distance, b.consumptionRateUsed, b.other),
           "tripUpdate")

TripDelete ==
  \E q \in EditRequesters, t \in 1 .. nreq :
    Finish(TripDeleteTx(Store, q[1], q[2], t), "tripDelete")

FuelingCreate ==
  \E u \in Users, v \in LedgerVehicles, c \in CostInputs, p \in PriceInputs,
     st \in StationInputs, ft \in FuelTypeInputs :
    /\ nreq < MaxReq
    /\ Finish(FuelingCreateTx(Store, nreq + 1, u, v, c, p, st, ft), "fuelingCreate")

FuelingUpdate ==
  \E u \in Users, f \in 1 .. nreq, b \in UpdateFuelingBodies :
    Finish(FuelingUpdateTx(Store, u, f, b), "fuelingUpdate")

FuelingDelete ==
  \E u \in Users, f \in 1 .. nreq :
    Finish(FuelingDeleteTx(Store, u, f), "fuelingDelete")

\* POST /:vehicleId/authorizations (o: the requester)
GrantAuthorization ==
  \E o \in Users, v \in LedgerVehicles, u \in Users :
    /\ veh[v].ownerId = o
    /\ o # u
    /\ <<u, v>> \notin auth
    /\ auth' = auth \cup {<<u, v>>}
    /\ UNCHANGED <<veh, trips, fuelings, nreq, last, procs, applied>>
    /\ UNCHANGED voteVars

\* DELETE /:vehicleId/authorizations/:userId
RevokeAuthorization ==
  \E o \in Users, v \in LedgerVehicles, u \in Users :
    /\ veh[v].ownerId = o
    /\ <<u, v>> \in auth
    /\ auth' = auth \ {<<u, v>>}
    /\ UNCHANGED <<veh, trips, fuelings, nreq, last, procs, applied>>
    /\ UNCHANGED voteVars

\* The store the requests start from.  Station s1 and price sp1 were
\* created through the API and await review; station s2 and price sp2 have
\* resolved proposals; station s3 and prices sp3, sp4 were not created in
\* the app (createdInApp = false) and have no proposal.
Station0 ==
  [x \in {"s1", "s2", "s3"} |->
     [status |-> IF x = "s1" THEN "UNDER_REVIEW" ELSE "ACTIVE", committed |-> TRUE]]
PriceRow(st, ft, price, at, status) ==
  [gasStationId |-> st, fuelTypeId |-> ft, price |-> price, reportedAt |-> at,
   status |-> status, committed |-> TRUE]
Price0 ==
  [x \in {"sp1", "sp2", "sp3", "sp4"} |->
     CASE x = "sp1" -> PriceRow("s1", "f1", 6, 1, "UNDER_REVIEW")
       [] x = "sp2" -> PriceRow("s1", "f1", 7, 2, "REJECTED")
       [] x = "sp3" -> PriceRow("s1", "f1", 4, 3, "ACTIVE")
       [] x = "sp4" -> PriceRow("s1", "f2", 5, 5, "ACTIVE")]
ProposalRow(target, status, reasonType, data) ==
  [target |-> target, status |-> status, reasonType |-> reasonType,
   proposedData |-> data, resolutionNotes |-> "null", committed |-> TRUE]
Proposal0 ==
  [m \in Models |->
     IF m = "gasStationProposal"
     THEN [x \in {"gp1", "gp2"} |->
             IF x = "gp1" THEN ProposalRow("s1", "PENDING", "INITIAL_CREATION", "null")
             ELSE ProposalRow("s2", "VERIFIED", "INITIAL_CREATION", "null")]
     ELSE [x \in {"pp1", "pp2"} |->
             IF x = "pp1" THEN ProposalRow("sp1", "PENDING", "INITIAL_CREATION", "null")
             ELSE ProposalRow("sp2", "REJECTED", "INITIAL_CREATION", "null")]]
SIdle == [pc |-> "idle", op |-> "none", n |-> 0, u |-> "none", stationId |-> "none",
          fuelTypeId |-> "none", items |-> <<>>, changes |-> "null",
          status |-> 0, conflict |-> FALSE, hadPending |-> FALSE, made |-> "none",
          error |-> "none"]
VIdle == [pc |-> "idle", model |-> "none", proposalId |-> "none",
          reviewerId |-> "none", vote |-> "none", status |-> 0, wrote |-> FALSE]

Init ==
  /\ veh = Vehicle0
  /\ auth = {}
  /\ trips = <<>>
  /\ fuelings = <<>>
  /\ nreq = 0
  /\ last = NoLast
  /\ procs = [p \in Procs |-> Idle]
  /\ applied = <<>>
  /\ stations = Station0
  /\ sprices = Price0
  /\ proposals = Proposal0
  /\ reviews = {}
  /\ vprocs = [p \in Procs |-> VIdle]
  /\ nvotes = 0
  /\ vlog = <<>>
  /\ sprocs = [p \in Procs |-> SIdle]
  /\ nst = 0

Next ==
  \/ TripCreate
  \/ TripUpdate
  \/ TripDelete
  \/ GrantAuthorization
  \/ RevokeAuthorization

NextFuel ==
  \/ FuelingCreate
  \/ FuelingUpdate
  \/ FuelingDelete
  \/ GrantAuthorization
  \/ RevokeAuthorization

SpecFuel == Init /\ [][NextFuel]_vars

Spec == Init /\ [][Next]_vars

\* ------------------------------------------------------------ statement by statement
\* A handler in flight holds its position (pc) and its locals.  A statement
\* takes effect on the store when it executes; a row created inside a
\* transaction is visible to other requests from the commit on (committed);
\* when the callback throws, what the transaction wrote is undone.
CommittedTrips == {t \in DOMAIN trips : trips[t].committed}
CommittedFuelings == {f \in DOMAIN fuelings : fuelings[f].committed}
Free(p) == procs[p].pc \in {"idle", "done"}
Go(p, q) == procs' = [procs EXCEPT ![p] = q]
Answer(p, st) == procs' = [procs EXCEPT ![p] = Done(procs[p], st)]
ConcFrame == UNCHANGED <<auth, last>> /\ UNCHANGED voteVars
Without(rows, id) == [x \in DOMAIN rows \ {id} |-> rows[x]]
Put(rows, id, row) == [x \in DOMAIN rows \cup {id} |-> IF x = id THEN row ELSE rows[x]]

\* POST /:vehicleId/trips: validation and fuelConsumed, before the transaction.
BeginTripCreate(p) ==
  \E u \in ConcUsers, v \in LedgerVehicles, b \in ConcTripBodies :
    /\ Free(p)
    /\ nreq < MaxConcReq
    /\ nreq' = nreq + 1
    /\ LET q == [Idle EXCEPT !.op = "tripCreate", !.u = u, !.v = v, !.id = nreq + 1,
                              !.dist = b.distance, !.rate = b.consumptionRateUsed]
       IN IF ~(b.distance > 0 /\ b.consumptionRateUsed > 0) THEN Go(p, Done(q, 400))
          ELSE IF FuelConsumed(b.distance, b.consumptionRateUsed) < 0 THEN Go(p, Done(q, 500))
          ELSE Go(p, [q EXCEPT !.pc = "tc_get",
                               !.fuel = FuelConsumed(b.distance, b.consumptionRateUsed)])
    /\ UNCHANGED <<veh, trips, fuelings, applied>>
    /\ ConcFrame

\* getVehicleForUpdate(tx, vehicleId, userId)
TC_Get(p) ==
  /\ procs[p].pc = "tc_get"
  /\ LET q == procs[p] IN
       IF q.v \notin DOMAIN veh THEN Answer(p, 404)
       ELSE IF ~HasAccess(auth, veh, q.u, q.v) THEN Answer(p, 403)
       ELSE Go(p, [q EXCEPT !.pc = "tc_create", !.moment = veh[q.v].appFuelTank])
  /\ UNCHANGED <<veh, trips, fuelings, applied, nreq>>
  /\ ConcFrame

\* tx.trip.create
TC_Create(p) ==
  /\ procs[p].pc = "tc_create"
  /\ LET q == procs[p] IN
       /\ trips' = Put(trips, q.id,
                       [vehicleId |-> q.v, userId |-> q.u, distance |-> q.dist,
                        consumptionRateUsed |-> q.rate, fuelConsumed |-> q.fuel,
                        momentAppFuelTank |-> q.moment, committed |-> FALSE,
                        tankBefore |-> q.moment])
       /\ Go(p, [q EXCEPT !.pc = "tc_update"])
  /\ UNCHANGED <<veh, fuelings, applied, nreq>>
  /\ ConcFrame

\* (mutant) a failed vehicle.update leaves the Trip row in the table.
TC_UpdateNoRollback(p) ==
  /\ procs[p].pc = "tc_update"
  /\ trips' = [trips EXCEPT ![procs[p].id].committed = TRUE]
  /\ Answer(p, 500)
  /\ UNCHANGED <<veh, fuelings, applied, nreq>>
  /\ ConcFrame

\* tx.vehicle.update (increment / decrement) and the commit; or the update
\* throws and the transaction is rolled back.
TC_Update(p) ==
  /\ procs[p].pc = "tc_update"
  /\ LET q == procs[p] IN
       \/ /\ veh' = [veh EXCEPT ![q.v].appOdometer = @ + q.dist,
                                 ![q.v].appFuelTank = @ - q.fuel]
          /\ trips' = [trips EXCEPT ![q.id].committed = TRUE,
                                    ![q.id].tankBefore = veh[q.v].appFuelTank]
          /\ applied' = Put(applied, q.id, <<q.dist, -q.fuel>>)
          /\ Answer(p, 200)
       \/ /\ trips' = Without(trips, q.id)
          /\ Answer(p, 500)
          /\ UNCHANGED <<veh, applied>>
  /\ UNCHANGED <<fuelings, nreq>>
  /\ ConcFrame

\* POST /:vehicleId/expenses/fueling: body validation.
BeginFuelingCreate(p) ==
  \E u \in ConcUsers, v \in LedgerVehicles, c \in CostInputs, pr \in PriceInputs,
     st \in StationInputs \cap ({"none"} \cup DOMAIN stations) :
    /\ Free(p)
    /\ nreq < MaxConcReq
    /\ nreq' = nreq + 1
    /\ LET q == [Idle EXCEPT !.op = "fuelingCreate", !.u = u, !.v = v, !.id = nreq + 1,
                              !.cost = c,
                              !.ppl = ResolvedPrice(sprices, st, ConcFuelType, pr)]
       IN IF ~(c > 0 /\ (pr = Absent \/ pr > 0)) THEN Go(p, Done(q, 400))
          ELSE IF st = "none" /\ pr = Absent THEN Go(p, Done(q, 400))
          ELSE Go(p, [q EXCEPT !.pc = "fc_access"])
    /\ UNCHANGED <<veh, trips, fuelings, applied>>
    /\ ConcFrame

\* checkVehicleAccess, then the price per litre and the volume.
FC_Access(p) ==
  /\ procs[p].pc = "fc_access"
  /\ LET q == procs[p] IN
       IF q.v \notin DOMAIN veh THEN Answer(p, 404)
       ELSE IF ~HasAccess(auth, veh, q.u, q.v) THEN Answer(p, 403)
       ELSE IF q.ppl = Absent \/ ~(q.ppl > 0) THEN Answer(p, 500)
       ELSE IF Volume(q.cost, q.ppl) < 0 THEN Answer(p, 500)
       ELSE Go(p, [q EXCEPT !.pc = "fc_read", !.vol = Volume(q.cost, q.ppl)])
  /\ UNCHANGED <<veh, trips, fuelings, applied, nreq>>
  /\ ConcFrame

\* prisma.vehicle.findUnique, outside the transaction
FC_Read(p) ==
  /\ procs[p].pc = "fc_read"
  /\ LET q == procs[p] IN
       IF q.v \notin DOMAIN veh THEN Answer(p, 400)
       ELSE Go(p, [q EXCEPT !.pc = "fc_create", !.moment = veh[q.v].appFuelTank])
  /\ UNCHANGED <<veh, trips, fuelings, applied, nreq>>
  /\ ConcFrame

\* tx.fueling.create
FC_Create(p) ==
  /\ procs[p].pc = "fc_create"
  /\ LET q == procs[p] IN
       /\ fuelings' = Put(fuelings, q.id,
                          [FuelingRow(q.u, q.v, q.cost, q.ppl, q.moment, q.moment)
                             EXCEPT !.committed = FALSE])
       /\ Go(p, [q EXCEPT !.pc = "fc_update"])
  /\ UNCHANGED <<veh, trips, applied, nreq>>
  /\ ConcFrame

\* (mutant) the tank is written as the value read before plus the volume.
FC_UpdateFromRead(p) ==
  /\ procs[p].pc = "fc_update"
  /\ LET q == procs[p] IN
       /\ veh' = [veh EXCEPT ![q.v].appFuelTank = q.moment + q.vol]
       /\ fuelings' = [fuelings EXCEPT ![q.id].committed = TRUE,
                                        ![q.id].tankBefore = veh[q.v].appFuelTank]
       /\ applied' = Put(applied, q.id, <<0, q.vol>>)
       /\ Answer(p, 201)
  /\ UNCHANGED <<trips, nreq>>
  /\ ConcFrame

\* tx.vehicle.update (increment) and the commit; or the update throws and
\* the transaction is rolled back.
FC_Update(p) ==
  /\ procs[p].pc = "fc_update"
  /\ LET q == procs[p] IN
       \/ /\ veh' = [veh EXCEPT ![q.v].appFuelTank = @ + q.vol]
          /\ fuelings' = [fuelings EXCEPT ![q.id].committed = TRUE,
                                           ![q.id].tankBefore = veh[q.v].appFuelTank]
          /\ applied' = Put(applied, q.id, <<0, q.vol>>)
          /\ Answer(p, 201)
       \/ /\ fuelings' = Without(fuelings, q.id)
          /\ Answer(p, 500)
          /\ UNCHANGED <<veh, applied>>
  /\ UNCHANGED <<trips, nreq>>
  /\ ConcFrame

NextCreate ==
  \E p \in Procs :
    \/ BeginTripCreate(p)
    \/ TC_Get(p)
    \/ TC_Create(p)
    \/ TC_Update(p)
    \/ BeginFuelingCreate(p)
    \/ FC_Access(p)
    \/ FC_Read(p)
    \/ FC_Create(p)
    \/ FC_Update(p)

SpecCreate == Init /\ [][NextCreate]_vars

\* PATCH /:vehicleId/trips/:tripId: body validation.
BeginTripUpdate(p) ==
  \E u \in ConcUsers, v \in LedgerVehicles, t \in 1 .. nreq, b \in ConcUpdateBodies :
    /\ Free(p)
    /\ nreq < MaxConcReq
    /\ nreq' = nreq + 1
    /\ LET q == [Idle EXCEPT !.op = "tripUpdate", !.u = u, !.v = v, !.id = t,
                              !.dist = b.distance, !.rate = b.consumptionRateUsed]
           d == b.distance
           r == b.consumptionRateUsed
       IN IF ~((d = Absent \/ d > 0) /\ (r = Absent \/ r > 0)) THEN Go(p, Done(q, 400))
          ELSE IF d = Absent /\ r = Absent /\ ~b.other THEN Go(p, Done(q, 400))
          ELSE Go(p, [q EXCEPT !.pc = "tu_find"])
    /\ UNCHANGED <<veh, trips, fuelings, applied>>
    /\ ConcFrame

\* tx.trip.findUnique, the two checks, newDistance / newRate /
\* newFuelConsumed and the deltas against the row as it was read.
TU_Find(p) ==
  /\ procs[p].pc = "tu_find"
  /\ LET q == procs[p] IN
       IF q.id \notin CommittedTrips THEN Answer(p, 404)
       ELSE LET cur == trips[q.id]
                newDistance == IF q.dist # Absent /\ q.dist # 0 THEN q.dist
                               ELSE cur.distance
                newRate == IF q.rate # Absent /\ q.rate # 0 THEN q.rate
                           ELSE cur.consumptionRateUsed
                recompute == IsPositive(newDistance) /\ IsPositive(newRate)
                newFuel == IF recompute THEN FuelConsumed(newDistance, newRate)
                           ELSE cur.fuelConsumed
            IN IF cur.vehicleId # q.v THEN Answer(p, 400)
               ELSE IF cur.userId # q.u THEN Answer(p, 403)
               ELSE IF ~recompute /\ (q.dist # Absent \/ q.rate # Absent)
                    THEN Answer(p, 400)
               ELSE Go(p, [q EXCEPT !.pc = "tu_update", !.fuel = newFuel,
                                    !.deltaDistance = newDistance - cur.distance,
                                    !.deltaFuel = newFuel - cur.fuelConsumed])
  /\ UNCHANGED <<veh, trips, fuelings, applied, nreq>>
  /\ ConcFrame

\* tx.trip.update({ data: newTripData }): the fields the body gave and the
\* recomputed fuelConsumed; a row deleted meanwhile makes it throw.
TU_Update(p) ==
  /\ procs[p].pc = "tu_update"
  /\ LET q == procs[p] IN
       IF q.id \notin DOMAIN trips
       THEN Answer(p, 500) /\ UNCHANGED trips
       ELSE /\ trips' = [trips EXCEPT
                           ![q.id].distance = IF q.dist # Absent THEN q.dist ELSE @,
                           ![q.id].consumptionRateUsed =
                              IF q.rate # Absent THEN q.rate ELSE @,
                           ![q.id].fuelConsumed = q.fuel]
            /\ IF q.deltaDistance # 0 \/ q.deltaFuel # 0
               THEN Go(p, [q EXCEPT !.pc = "tu_veh"])
               ELSE Answer(p, 200)
  /\ UNCHANGED <<veh, fuelings, applied, nreq>>
  /\ ConcFrame

\* tx.vehicle.update (increment deltaDistance, decrement deltaFuel), commit.
TU_Veh(p) ==
  /\ procs[p].pc = "tu_veh"
  /\ LET q == procs[p] IN
       veh' = [veh EXCEPT ![q.v].appOdometer = @ + q.deltaDistance,
                          ![q.v].appFuelTank = @ - q.deltaFuel]
  /\ Answer(p, 200)
  /\ UNCHANGED <<trips, fuelings, applied, nreq>>
  /\ ConcFrame

\* DELETE /:vehicleId/trips/:tripId
BeginTripDelete(p) ==
  \E u \in ConcUsers, v \in LedgerVehicles, t \in 1 .. nreq :
    /\ Free(p)
    /\ nreq < MaxConcReq
    /\ nreq' = nreq + 1
    /\ Go(p, [Idle EXCEPT !.pc = "td_find", !.op = "tripDelete", !.u = u, !.v = v,
                          !.id = t])
    /\ UNCHANGED <<veh, trips, fuelings, applied>>
    /\ ConcFrame

\* tx.trip.findUnique and the two checks
TD_Find(p) ==
  /\ procs[p].pc = "td_find"
  /\ LET q == procs[p] IN
       IF q.id \notin CommittedTrips THEN Answer(p, 404)
       ELSE IF trips[q.id].vehicleId # q.v THEN Answer(p, 400)
       ELSE IF trips[q.id].userId # q.u THEN Answer(p, 403)
       ELSE Go(p, [q EXCEPT !.pc = "td_veh", !.dist = trips[q.id].distance,
                            !.fuel = trips[q.id].fuelConsumed])
  /\ UNCHANGED <<veh, trips, fuelings, applied, nreq>>
  /\ ConcFrame

\* tx.vehicle.update (decrement distance, increment fuelConsumed)
TD_Veh(p) ==
  /\ procs[p].pc = "td_veh"
  /\ LET q == procs[p] IN
       /\ veh' = [veh EXCEPT ![q.v].appOdometer = @ - q.dist,
                             ![q.v].appFuelTank = @ + q.fuel]
       /\ Go(p, [q EXCEPT !.pc = "td_delete"])
  /\ UNCHANGED <<trips, fuelings, applied, nreq>>
  /\ ConcFrame

\* tx.trip.delete and the commit; a row deleted meanwhile makes it throw,
\* and the rollback takes this transaction's vehicle update back.
TD_Delete(p) ==
  /\ procs[p].pc = "td_delete"
  /\ LET q == procs[p] IN
       IF q.id \notin DOMAIN trips
       THEN /\ veh' = [veh EXCEPT ![q.v].appOdometer = @ + q.dist,
                                  ![q.v].appFuelTank = @ - q.fuel]
            /\ Answer(p, 500)
            /\ UNCHANGED <<trips, applied>>
       ELSE /\ trips' = Without(trips, q.id)
            /\ applied' = Without(applied, q.id)
            /\ Answer(p, 200)
            /\ UNCHANGED veh
  /\ UNCHANGED <<fuelings, nreq>>
  /\ ConcFrame

NextEdit ==
  \E p \in Procs :
    \/ BeginTripCreate(p)
    \/ TC_Get(p)
    \/ TC_Create(p)
    \/ TC_Update(p)
    \/ BeginTripUpdate(p)
    \/ TU_Find(p)
    \/ TU_Update(p)
    \/ TU_Veh(p)
    \/ BeginTripDelete(p)
    \/ TD_Find(p)
    \/ TD_Veh(p)
    \/ TD_Delete(p)

SpecEdit == Init /\ [][NextEdit]_vars

\* ------------------------------------------------------------ votes
\* findProposal: the status the helper answers with, 200 when it returns.
\* (mutant) the helper returns every proposal it finds.
findProposalAnyStatus(ps, m, id) ==
  IF id \notin DOMAIN ps[m] THEN 404 ELSE 200

\* (mutant) only a VERIFIED proposal is closed to further requests.
findProposalVerifiedOnly(ps, m, id) ==
  IF id \notin DOMAIN ps[m] THEN 404
  ELSE IF ps[m][id].status = "VERIFIED" THEN 409
  ELSE 200

findProposal(ps, m, id) ==
  IF id \notin DOMAIN ps[m] THEN 404
  ELSE IF ps[m][id].status # "PENDING" THEN 409
  ELSE 200

SameKey(row, m, id, u) ==
  row.model = m /\ row.proposalId = id /\ row.reviewerId = u

\* (mutant) every submission adds a row.
insertReview(rs, m, id, u, v) ==
  rs \cup {[model |-> m, proposalId |-> id, reviewerId |-> u, vote |-> v]}

\* upsert({ where: { proposalId_reviewerId }, update: { vote }, create: {...} })
upsert(rs, m, id, u, v) ==
  {row \in rs : ~SameKey(row, m, id, u)}
    \cup {[model |-> m, proposalId |-> id, reviewerId |-> u, vote |-> v]}

VoteFrame == UNCHANGED ledgerVars /\ UNCHANGED <<stations, sprices, proposals, sprocs, nst>>

\* POST /gas-station/:proposalId/vote, POST /station-price/:proposalId/vote
BeginVote(p) ==
  \E tg \in VoteTargets, u \in Users, v \in ReviewVote :
    /\ vprocs[p].pc \in {"idle", "done"}
    /\ nvotes < MaxVotes
    /\ nvotes' = nvotes + 1
    /\ vprocs' = [vprocs EXCEPT ![p] =
                    [VIdle EXCEPT !.pc = "find", !.model = tg[1], !.proposalId = tg[2],
                                  !.reviewerId = u, !.vote = v]]
    /\ UNCHANGED <<reviews, vlog>>
    /\ VoteFrame

\* findProposal(prisma, proposalId, model)
V_Find(p) ==
  /\ vprocs[p].pc = "find"
  /\ LET q == vprocs[p]
         st == findProposal(proposals, q.model, q.proposalId)
     IN vprocs' = [vprocs EXCEPT ![p] =
                     IF st = 200 THEN [q EXCEPT !.pc = "upsert"]
                     ELSE [q EXCEPT !.pc = "done", !.status = st]]
  /\ UNCHANGED <<reviews, vlog, nvotes>>
  /\ VoteFrame

\* (mutant) a PROTEST vote marks the proposal PROTESTED as it is stored.
V_UpsertResolves(p) ==
  /\ vprocs[p].pc = "upsert"
  /\ LET q == vprocs[p]
         k == <<q.model, q.proposalId, q.reviewerId>>
     IN /\ reviews' = upsert(reviews, q.model, q.proposalId, q.reviewerId, q.vote)
        /\ vlog' = [x \in DOMAIN vlog \cup {k} |-> IF x = k THEN q.vote ELSE vlog[x]]
        /\ vprocs' = [vprocs EXCEPT ![p] =
                        [q EXCEPT !.pc = "done", !.status = 200, !.wrote = TRUE]]
        /\ proposals' = IF q.vote = "PROTEST"
                        THEN [proposals EXCEPT ![q.model][q.proposalId].status = "PROTESTED"]
                        ELSE proposals
  /\ UNCHANGED <<nvotes, stations, sprices, sprocs, nst>>
  /\ UNCHANGED ledgerVars

\* prisma.gasStationReview.upsert / prisma.stationPriceReview.upsert
V_Upsert(p) ==
  /\ vprocs[p].pc = "upsert"
  /\ LET q == vprocs[p]
         k == <<q.model, q.proposalId, q.reviewerId>>
     IN /\ reviews' = upsert(reviews, q.model, q.proposalId, q.reviewerId, q.vote)
        /\ vlog' = [x \in DOMAIN vlog \cup {k} |-> IF x = k THEN q.vote ELSE vlog[x]]
        /\ vprocs' = [vprocs EXCEPT ![p] =
                        [q EXCEPT !.pc = "done", !.status = 200, !.wrote = TRUE]]
  /\ UNCHANGED nvotes
  /\ VoteFrame

\* A whole vote request, run alone: findProposal, the upsert, and the
\* vote processing, which logs and writes nothing.
CastVote ==
  \E tg \in TallyTargets, u \in Reviewers, v \in ReviewVote :
    /\ nvotes < MaxTally
    /\ nvotes' = nvotes + 1
    /\ IF findProposal(proposals, tg[1], tg[2]) = 200
       THEN /\ reviews' = upsert(reviews, tg[1], tg[2], u, v)
            /\ vlog' = [x \in DOMAIN vlog \cup {<<tg[1], tg[2], u>>} |->
                          IF x = <<tg[1], tg[2], u>> THEN v ELSE vlog[x]]
       ELSE UNCHANGED <<reviews, vlog>>
    /\ UNCHANGED vprocs
    /\ VoteFrame

NextTally == CastVote

SpecTally == Init /\ [][NextTally]_vars

NextVote ==
  \E p \in Procs :
    \/ BeginVote(p)
    \/ V_Find(p)
    \/ V_Upsert(p)

SpecVote == Init /\ [][NextVote]_vars

\* ------------------------------------------------------------ stations and proposals
\* The ids of the rows the n-th station request creates (uuid defaults).
NewId(prefix, n) == prefix \o ToString(n)
NewPriceId(n, i) == "np" \o ToString(n) \o "_" \o ToString(i)
NewPriceIds(q) == {NewPriceId(q.n, i) : i \in 1 .. Len(q.items)}
\* "now" for the n-th request: later than every stored reportedAt.
Now(n) == 10 + n

SFree(p) == sprocs[p].pc \in {"idle", "done"}
SGo(p, q) == sprocs' = [sprocs EXCEPT ![p] = q]
SAnswer(p, st) == sprocs' = [sprocs EXCEPT ![p] = [sprocs[p] EXCEPT !.pc = "done", !.status = st]]

\* Errors: an AppError with its statusCode, a PrismaClientKnownRequestError
\* with its code, or any other Error.
AppError(st) == [kind |-> "AppError", code |-> "none", statusCode |-> st]
PrismaKnownError(code) == [kind |-> "PrismaKnown", code |-> code, statusCode |-> 0]
OtherError == [kind |-> "Error", code |-> "none", statusCode |-> 0]
\* next(error): an AppError is rethrown, anything else becomes
\* AppError('Erro', 500).
next(err) == IF err.kind = "AppError" THEN err ELSE AppError(500)
handlePrismaKnownError(err) ==
  AppError(CASE err.code = "P2002" -> 409
             [] err.code \in {"P2014", "P2003"} -> 409
             [] err.code = "P2025" -> 404
             [] OTHER -> 500)
\* app.onError: the status of the response to a thrown error.
honoErrorHandler(err) ==
  IF err.kind = "PrismaKnown" THEN handlePrismaKnownError(err).statusCode
  ELSE IF err.kind = "AppError" THEN err.statusCode
  ELSE 500
\* A handler's catch (error) { next(error) }: next throws, app.onError answers.
Caught(err) == honoErrorHandler(next(err))
\* What the request record keeps of the error: the code of a store error.
ErrorName(err) == IF err.kind = "PrismaKnown" THEN err.code ELSE err.kind
SThrow(p, err) ==
  sprocs' = [sprocs EXCEPT ![p] = [sprocs[p] EXCEPT !.pc = "done", !.status = Caught(err),
                                                     !.error = ErrorName(err)]]
StationFrame == UNCHANGED ledgerVars /\ UNCHANGED <<reviews, vprocs, nvotes, vlog>>
Visible(rows) == {x \in DOMAIN rows : rows[x].committed}
Commit(rows, ids) ==
  [x \in DOMAIN rows |-> IF x \in ids THEN [rows[x] EXCEPT !.committed = TRUE] ELSE rows[x]]
Discard(rows, ids) == [x \in DOMAIN rows \ ids |-> rows[x]]
Insert(rows, new) ==
  [x \in DOMAIN rows \cup DOMAIN new |-> IF x \in DOMAIN new THEN new[x] ELSE rows[x]]
\* The proposal rows of one table that refer to a target (unique per target).
ProposalsOf(ps, m, target) == {x \in DOMAIN ps[m] : ps[m][x].target = target}

\* POST /stations
BeginCreateStation(p) ==
  \E u \in StationUsers, items \in CreatePriceLists :
    /\ SFree(p)
    /\ nst < MaxSt
    /\ nst' = nst + 1
    /\ SGo(p, [SIdle EXCEPT !.pc = "cs_station", !.op = "createStation", !.n = nst + 1,
                            !.u = u, !.stationId = NewId("ns", nst + 1), !.items = items])
    /\ UNCHANGED <<stations, sprices, proposals>>
    /\ StationFrame

\* tx.gasStation.create({ status: UNDER_REVIEW })
CS_Station(p) ==
  /\ sprocs[p].pc = "cs_station"
  /\ LET q == sprocs[p] IN
       /\ stations' = Insert(stations, [x \in {q.stationId} |->
                                          [status |-> "UNDER_REVIEW", committed |-> FALSE]])
       /\ SGo(p, [q EXCEPT !.pc = "cs_proposal"])
  /\ UNCHANGED <<sprices, proposals, nst>>
  /\ StationFrame

\* tx.gasStationProposal.create({ status: PENDING, reasonType: INITIAL_CREATION })
CS_Proposal(p) ==
  /\ sprocs[p].pc = "cs_proposal"
  /\ LET q == sprocs[p] IN
       /\ proposals' =
            [proposals EXCEPT !["gasStationProposal"] =
               Insert(@, [x \in {NewId("ng", q.n)} |->
                            [ProposalRow(q.stationId, "PENDING", "INITIAL_CREATION", "null")
                               EXCEPT !.committed = FALSE]])]
       /\ SGo(p, [q EXCEPT !.pc = "cs_prices"])
  /\ UNCHANGED <<stations, sprices, nst>>
  /\ StationFrame

\* (mutant) a failed createMany leaves the station and its proposal stored.
CS_PricesNoRollback(p) ==
  /\ sprocs[p].pc = "cs_prices"
  /\ \E i \in 1 .. Len(sprocs[p].items) : sprocs[p].items[i].fuelTypeId \notin FuelTypes
  /\ stations' = Commit(stations, {sprocs[p].stationId})
  /\ proposals' = [proposals EXCEPT !["gasStationProposal"] =
                      Commit(@, {NewId("ng", sprocs[p].n)})]
  /\ SAnswer(p, 500)
  /\ UNCHANGED <<sprices, nst>>
  /\ StationFrame

\* tx.stationPrice.createManyAndReturn: one row per item, status by default
\* UNDER_REVIEW; an item whose fuel type has no row violates the foreign
\* key, the callback throws and the transaction is rolled back.
CS_Prices(p) ==
  /\ sprocs[p].pc = "cs_prices"
  /\ LET q == sprocs[p] IN
       IF \E i \in 1 .. Len(q.items) : q.items[i].fuelTypeId \notin FuelTypes
       THEN /\ stations' = Discard(stations, {q.stationId})
            /\ proposals' = [proposals EXCEPT !["gasStationProposal"] =
                                Discard(@, {NewId("ng", q.n)})]
            /\ SThrow(p, PrismaKnownError("P2003"))
            /\ UNCHANGED sprices
       ELSE /\ sprices' =
                 Insert(sprices,
                        [x \in NewPriceIds(q) |->
                           LET i == CHOOSE j \in 1 .. Len(q.items) : NewPriceId(q.n, j) = x
                           IN [PriceRow(q.stationId, q.items[i].fuelTypeId, q.items[i].price,
                                        Now(q.n), "UNDER_REVIEW")
                                 EXCEPT !.committed = FALSE]])
            /\ SGo(p, [q EXCEPT !.pc = "cs_priceproposals"])
            /\ UNCHANGED <<stations, proposals>>
  /\ UNCHANGED nst
  /\ StationFrame

\* tx.stationPriceProposal.createManyAndReturn({ reasonType:
\* INITIAL_CREATION }), status by default PENDING; then the commit.
CS_PriceProposals(p) ==
  /\ sprocs[p].pc = "cs_priceproposals"
  /\ LET q == sprocs[p] IN
       /\ stations' = Commit(stations, {q.stationId})
       /\ sprices' = Commit(sprices, NewPriceIds(q))
       /\ proposals' =
            [proposals EXCEPT
               !["gasStationProposal"] = Commit(@, {NewId("ng", q.n)}),
               !["stationPriceProposal"] =
                  Insert(@, [x \in {"n" \o y : y \in NewPriceIds(q)} |->
                               ProposalRow(CHOOSE y \in NewPriceIds(q) : "n" \o y = x,
                                           "PENDING", "INITIAL_CREATION", "null")])]
       /\ SAnswer(p, 201)
  /\ UNCHANGED nst
  /\ StationFrame

\* POST /:stationId/prices
BeginReportPrice(p) ==
  \E u \in StationUsers, st \in ReportParams, ft \in ReportFuelTypes :
    /\ SFree(p)
    /\ nst < MaxSt
    /\ nst' = nst + 1
    /\ SGo(p, [SIdle EXCEPT !.pc = "rp_find", !.op = "reportPrice", !.n = nst + 1,
                            !.u = u, !.stationId = st, !.fuelTypeId = ft,
                            !.items = <<Item(ft, 5)>>])
    /\ UNCHANGED <<stations, sprices, proposals>>
    /\ StationFrame

\* prisma.gasStation.findUnique, prisma.fuelType.findUnique
RP_Find(p) ==
  /\ sprocs[p].pc = "rp_find"
  /\ LET q == sprocs[p] IN
       IF q.stationId \notin Visible(stations) THEN SAnswer(p, 404)
       ELSE IF q.fuelTypeId \notin FuelTypes THEN SAnswer(p, 400)
       ELSE SGo(p, [q EXCEPT !.pc = "rp_price"])
  /\ UNCHANGED <<stations, sprices, proposals, nst>>
  /\ StationFrame

\* tx.stationPrice.create({ status: UNDER_REVIEW, reportedAt: new Date() })
RP_Price(p) ==
  /\ sprocs[p].pc = "rp_price"
  /\ LET q == sprocs[p] IN
       /\ sprices' = Insert(sprices,
                            [x \in {NewPriceId(q.n, 1)} |->
                               [PriceRow(q.stationId, q.fuelTypeId, q.items[1].price,
                                         Now(q.n), "UNDER_REVIEW")
                                  EXCEPT !.committed = FALSE]])
       /\ SGo(p, [q EXCEPT !.pc = "rp_proposal"])
  /\ UNCHANGED <<stations, proposals, nst>>
  /\ StationFrame

\* (mutant) a failed proposal create leaves the price stored.
RP_ProposalNoRollback(p) ==
  /\ sprocs[p].pc = "rp_proposal"
  /\ sprices' = Commit(sprices, {NewPriceId(sprocs[p].n, 1)})
  /\ SAnswer(p, 500)
  /\ UNCHANGED <<stations, proposals, nst>>
  /\ StationFrame

\* tx.stationPriceProposal.create({ status: PENDING, reasonType:
\* INITIAL_CREATION }) and the commit; or the create throws and the
\* transaction is rolled back.
RP_Proposal(p) ==
  /\ sprocs[p].pc = "rp_proposal"
  /\ LET q == sprocs[p]
         sp == NewPriceId(q.n, 1)
     IN \/ /\ sprices' = Commit(sprices, {sp})
           /\ proposals' =
                [proposals EXCEPT !["stationPriceProposal"] =
                   Insert(@, [x \in {"n" \o sp} |->
                                ProposalRow(sp, "PENDING", "INITIAL_CREATION", "null")])]
           /\ SAnswer(p, 200)
        \/ /\ sprices' = Discard(sprices, {sp})
           /\ SThrow(p, OtherError)
           /\ UNCHANGED proposals
  /\ UNCHANGED <<stations, nst>>
  /\ StationFrame

\* POST /:stationId/propose-edit: { reason, stationPrices, ...proposedChanges }
BeginProposeEdit(p) ==
  \E u \in StationUsers, st \in StationParams, items \in EditPriceLists,
     ch \in ProposedChanges :
    /\ SFree(p)
    /\ nst < MaxSt
    /\ nst' = nst + 1
    /\ SGo(p, [SIdle EXCEPT !.pc = "pe_find", !.op = "proposeEdit", !.n = nst + 1,
                            !.u = u, !.stationId = st, !.items = items, !.changes = ch])
    /\ UNCHANGED <<stations, sprices, proposals>>
    /\ StationFrame

\* prisma.gasStation.findUnique; the pending-proposal check is commented out.
PE_Find(p) ==
  /\ sprocs[p].pc = "pe_find"
  /\ LET q == sprocs[p] IN
       IF q.stationId \notin Visible(stations) THEN SAnswer(p, 404)
       ELSE SGo(p, [q EXCEPT !.pc = "pe_create"])
  /\ UNCHANGED <<stations, sprices, proposals, nst>>
  /\ StationFrame

\* prisma.gasStationProposal.create({ status: PENDING, reasonType:
\* DATA_UPDATE, proposedData: proposedChanges }), outside any transaction.
\* @@unique([gasStationId]): a station that has a proposal row makes the
\* create throw P2002.
PE_Create(p) ==
  /\ sprocs[p].pc = "pe_create"
  /\ LET q == sprocs[p]
         rows == ProposalsOf(proposals, "gasStationProposal", q.stationId)
         had == \E x \in rows : proposals["gasStationProposal"][x].status = "PENDING"
     IN IF rows # {}
        THEN /\ sprocs' = [sprocs EXCEPT ![p] =
                             [q EXCEPT !.pc = "done", !.conflict = TRUE, !.hadPending = had,
                                       !.status = Caught(PrismaKnownError("P2002")),
                                       !.error = "P2002"]]
             /\ UNCHANGED proposals
        ELSE /\ proposals' =
                  [proposals EXCEPT !["gasStationProposal"] =
                     Insert(@, [x \in {NewId("ne", q.n)} |->
                                  ProposalRow(q.stationId, "PENDING", "DATA_UPDATE",
                                              q.changes)])]
             /\ SGo(p, [q EXCEPT !.pc = "pe_prices", !.made = NewId("ne", q.n)])
  /\ UNCHANGED <<stations, sprices, nst>>
  /\ StationFrame

\* prisma.stationPriceProposal.createManyAndReturn({ data: stationPrices.map(
\* item => ({ proposerId, ...item, reasonType: DATA_UPDATE })) }): every item
\* carries price and fuelTypeId, which StationPriceProposal does not have,
\* so a non-empty list makes the call throw; an empty list creates nothing.
PE_Prices(p) ==
  /\ sprocs[p].pc = "pe_prices"
  /\ IF sprocs[p].items = <<>> THEN SAnswer(p, 200) ELSE SThrow(p, OtherError)
  /\ UNCHANGED <<stations, sprices, proposals, nst>>
  /\ StationFrame

NextStation ==
  \E p \in Procs :
    \/ BeginCreateStation(p)
    \/ CS_Station(p)
    \/ CS_Proposal(p)
    \/ CS_Prices(p)
    \/ CS_PriceProposals(p)
    \/ BeginReportPrice(p)
    \/ RP_Find(p)
    \/ RP_Price(p)
    \/ RP_Proposal(p)
    \/ BeginProposeEdit(p)
    \/ PE_Find(p)
    \/ PE_Create(p)
    \/ PE_Prices(p)

SpecStation == Init /\ [][NextStation]_vars

\* ------------------------------------------------------------ SpecTrip: trip requests, recorded
\* The request a trip handler answered: requester, path vehicle, trip id
\* (0 for a create), body, and whether the requester could use the vehicle.
TripRequest(u, v, t, b) ==
  [u |-> u, v |-> v, t |-> t, body |-> b,
   access |-> v \in DOMAIN veh /\ HasAccess(auth, veh, u, v)]

\* As Finish, and last also keeps the status and the request.
FinishReq(res, op, req) ==
  /\ veh' = res.veh
  /\ trips' = res.trips
  /\ fuelings' = res.fuelings
  /\ last' = [op |-> op, ok |-> res.status \in {200, 201, 204},
              status |-> res.status, req |-> req]
  /\ nreq' = IF DOMAIN res.trips \subseteq DOMAIN trips THEN nreq ELSE nreq + 1
  /\ UNCHANGED <<auth, procs, applied>>
  /\ UNCHANGED voteVars

\* POST /:vehicleId/trips
TripCreateReq ==
  \E u \in Users, v \in LedgerVehicles, b \in EdgeCreateBodies :
    /\ nreq < MaxTripReq
    /\ FinishReq(TripCreateTx(Store, nreq + 1, u, v, b.distance, b.consumptionRateUsed),
                 "tripCreate", TripRequest(u, v, 0, b))

\* PATCH /:vehicleId/trips/:tripId
TripUpdateReq ==
  \E q \in EditRequesters, t \in 1 .. nreq, b \in EdgeUpdateBodies :
    FinishReq(TripUpdateTx(Store, q[1], q[2], t, b.distance, b.consumptionRateUsed, b.other),
              "tripUpdate", TripRequest(q[1], q[2], t, b))

\* DELETE /:vehicleId/trips/:tripId
TripDeleteReq ==
  \E q \in EditRequesters, t \in 1 .. nreq :
    FinishReq(TripDeleteTx(Store, q[1], q[2], t),
              "tripDelete", TripRequest(q[1], q[2], t, Body(Absent, Absent, FALSE)))

NextTrip ==
  \/ TripCreateReq
  \/ TripUpdateReq
  \/ TripDeleteReq
  \/ GrantAuthorization

SpecTrip == Init /\ [][NextTrip]_vars

\* ------------------------------------------------------------ SpecLedger: every route that names a vehicle
\* PATCH bodies of a vehicle: appOdometer, or other fields only (alias,
\* brand, ..., categoryId).  appFuelTank is not a key of updateVehicleSchema
\* and is stripped from the body.
VehicleBody(o, other) == [appOdometer |-> o, other |-> other]
UpdateVehicleBodies == {VehicleBody(7 * Scale, FALSE), VehicleBody(Absent, TRUE)}

\* PATCH /:vehicleId: prisma.vehicle.update({ data: dataToUpdate }).
VehicleUpdateTx(S, u, v, b) ==
  IF ~(b.appOdometer = Absent \/ b.appOdometer >= 0) THEN Reply(S, 400)
  ELSE IF b.appOdometer = Absent /\ ~b.other THEN Reply(S, 400)
  ELSE IF v \notin DOMAIN S.veh THEN Reply(S, 404)          \* checkVehicleAccess
  ELSE IF ~HasAccess(S.auth, S.veh, u, v) THEN Reply(S, 403)
  ELSE [veh |-> IF b.appOdometer # Absent
                THEN [S.veh EXCEPT ![v].appOdometer = b.appOdometer]
                ELSE S.veh,
        trips |-> S.trips,
        fuelings |-> S.fuelings,
        status |-> 200]

\* POST /:vehicleId/expenses/general: writes a GeneralExpense row only.
GeneralExpenseCreateTx(S, u, v) ==
  IF v \notin DOMAIN S.veh THEN Reply(S, 404)
  ELSE IF ~HasAccess(S.auth, S.veh, u, v) THEN Reply(S, 403)
  ELSE Reply(S, 201)

VehicleUpdate ==
  \E u \in Users, v \in LedgerVehicles, b \in UpdateVehicleBodies :
    FinishReq(VehicleUpdateTx(Store, u, v, b), "vehicleUpdate", TripRequest(u, v, 0, b))

GeneralExpenseCreate ==
  \E u \in Users, v \in LedgerVehicles :
    FinishReq(GeneralExpenseCreateTx(Store, u, v), "generalExpenseCreate",
              TripRequest(u, v, 0, VehicleBody(Absent, TRUE)))

NextLedger ==
  \/ TripCreateReq
  \/ TripUpdateReq
  \/ TripDeleteReq
  \/ FuelingCreate
  \/ FuelingDelete
  \/ VehicleUpdate
  \/ GeneralExpenseCreate

SpecLedger == Init /\ [][NextLedger]_vars

\* ------------------------------------------------------------ SpecVehicle: POST /vehicles, statement by statement
\* Users that create vehicles, and their roles.  u1 owns v1 and u2 owns v2;
\* u3 owns nothing yet.
VehicleUsers == {"u1", "u2", "u3"}
RoleOf == [u \in VehicleUsers |-> IF u = "u2" THEN "PREMIUM_USER" ELSE "BASIC_USER"]
basicRole == "BASIC_USER"
\* Plates sent: one already registered, two new.
Plates == {"P1", "P3", "P4"}
\* VehicleCategory rows, and the category ids sent.
Categories == {"c1"}
CategoryInputs == {"c1", "c9"}

\* prisma.vehicle.count({ where: { ownerId } })
vehicleCount(vs, u) == Cardinality({v \in DOMAIN vs : vs[v].ownerId = u})
\* prisma.vehicle.findUnique({ where: { plate } })
plateExists(vs, plate) == \E v \in DOMAIN vs : vs[v].plate = plate
\* The row prisma.vehicle.create inserts: the columns' defaults are 0.
NewVehicle(u, plate) ==
  [ownerId |-> u, plate |-> plate, appOdometer |-> 0, appFuelTank |-> 0]

\* A vehicle-create request: the body's plate and categoryId, the vehicle
\* inserted, the store error met, and (history) how many vehicles the user
\* owned when the request began.
VehicleRequest(u, plate, c, owned) ==
  [pc |-> "vc_count", op |-> "vehicleCreate", u |-> u, v |-> "none",
   plate |-> plate, categoryId |-> c, error |-> "none", owned |-> owned,
   status |-> 0]

VehAnswer(p, st) ==
  procs' = [procs EXCEPT ![p].pc = "done", ![p].status = st]
VehFrame == /\ UNCHANGED <<auth, trips, fuelings, last, applied>>
            /\ UNCHANGED voteVars

BeginVehicleCreate(p) ==
  /\ procs[p].pc = "idle"
  /\ nreq < MaxVehReq
  /\ \E u \in VehicleUsers, plate \in Plates, c \in CategoryInputs :
       procs' = [procs EXCEPT ![p] =
                   VehicleRequest(u, plate, c, vehicleCount(veh, u))]
  /\ nreq' = nreq + 1
  /\ UNCHANGED veh
  /\ VehFrame

\* if (basicUserRoleId === roleId) { count; if (vehicleCount >= 1) 403 }
VC_Count(p) ==
  /\ procs[p].pc = "vc_count"
  /\ IF RoleOf[procs[p].u] = basicRole /\ vehicleCount(veh, procs[p].u) >= 1
     THEN VehAnswer(p, 403)
     ELSE procs' = [procs EXCEPT ![p].pc = "vc_category"]
  /\ UNCHANGED <<veh, nreq>>
  /\ VehFrame

\* 1. Validate CategoryId exists
VC_Category(p) ==
  /\ procs[p].pc = "vc_category"
  /\ IF procs[p].categoryId \notin Categories
     THEN VehAnswer(p, 404)
     ELSE procs' = [procs EXCEPT ![p].pc = "vc_plate"]
  /\ UNCHANGED <<veh, nreq>>
  /\ VehFrame

\* 2. Check for existing plate
VC_Plate(p) ==
  /\ procs[p].pc = "vc_plate"
  /\ IF plateExists(veh, procs[p].plate)
     THEN VehAnswer(p, 409)
     ELSE procs' = [procs EXCEPT ![p].pc = "vc_create"]
  /\ UNCHANGED <<veh, nreq>>
  /\ VehFrame

\* 3. Create Vehicle.  The plate is @unique: a second insert of it throws
\* P2002, which the handler's catch hands to next().
VC_Create(p) ==
  /\ procs[p].pc = "vc_create"
  /\ IF plateExists(veh, procs[p].plate)
     THEN /\ procs' = [procs EXCEPT ![p].pc = "done", ![p].error = "P2002",
                                    ![p].status = Caught(PrismaKnownError("P2002"))]
          /\ UNCHANGED veh
     ELSE LET id == NewId("nv", Cardinality(DOMAIN veh) + 1) IN
          /\ veh' = [v \in DOMAIN veh \cup {id} |->
                       IF v = id THEN NewVehicle(procs[p].u, procs[p].plate)
                       ELSE veh[v]]
          /\ procs' = [procs EXCEPT ![p].pc = "done", ![p].v = id, ![p].status = 201]
  /\ UNCHANGED nreq
  /\ VehFrame

\* The answer has been sent; the worker serves another request.
VehicleRequestEnds(p) ==
  /\ procs[p].pc = "done"
  /\ procs[p].op = "vehicleCreate"
  /\ procs' = [procs EXCEPT ![p] = Idle]
  /\ UNCHANGED <<veh, nreq>>
  /\ VehFrame

NextVehicle ==
  \E p \in Procs :
    \/ BeginVehicleCreate(p)
    \/ VC_Count(p)
    \/ VC_Category(p)
    \/ VC_Plate(p)
    \/ VC_Create(p)
    \/ VehicleRequestEnds(p)

SpecVehicle == Init /\ [][NextVehicle]_vars

\* ------------------------------------------------------------ claims under Spec
TripsOf(ts, v) == {t \in DOMAIN ts : ts[t].vehicleId = v /\ ts[t].committed}

LedgerMatches(vs, ts, v) ==
  /\ vs[v].appOdometer = Vehicle0[v].appOdometer + SumOver(ts, TripsOf(ts, v), "distance")
  /\ vs[v].appFuelTank = Vehicle0[v].appFuelTank - SumOver(ts, TripsOf(ts, v), "fuelConsumed")

\* C1: after any sequence of completed Trip create / update / delete requests,
\* each vehicle's appOdometer is its initial odometer plus the sum of distance
\* over the trips that exist, and its appFuelTank is its initial tank minus
\* the sum of their fuelConsumed.
C1_LedgerConsistency == \A v \in VehicleIds : LedgerMatches(veh, trips, v)

\* Two trips exist after an accepted update (a sequence that created and edited).
C1_Witness ==
  /\ last = [op |-> "tripUpdate", ok |-> TRUE]
  /\ Cardinality(DOMAIN trips) = 2
  /\ \E t \in DOMAIN trips : trips[t].momentAppFuelTank - trips[t].fuelConsumed # veh["v1"].appFuelTank

With(S, res) == [veh |-> res.veh, auth |-> S.auth, trips |-> res.trips, fuelings |-> res.fuelings]

\* C2: an accepted Trip create sets the odometer to old + distance and the
\* tank to old - fuelConsumed (distance 100, rate 10 consumes 10 and takes a
\* tank of 50 to 40); deleting that trip next restores odometer and tank to
\* their values before the create.
C2_CreateDeleteRoundTrip ==
  \A u \in Users, v \in LedgerVehicles, b \in CreateTripBodies :
    LET id == nreq + 1
        c == TripCreateTx(Store, id, u, v, b.distance, b.consumptionRateUsed)
        x == TripDeleteTx(With(Store, c), u, v, id)
    IN c.status = 200 =>
         /\ b.distance > 0 /\ b.consumptionRateUsed > 0
         /\ c.veh[v].appOdometer = veh[v].appOdometer + c.trips[id].distance
         /\ c.veh[v].appFuelTank = veh[v].appFuelTank - c.trips[id].fuelConsumed
         /\ c.trips[id].distance = b.distance
         /\ (b.distance = 100 * Scale /\ b.consumptionRateUsed = 10 =>
               /\ c.trips[id].fuelConsumed = 10 * Scale
               /\ (veh[v].appFuelTank = 50 * Scale => c.veh[v].appFuelTank = 40 * Scale))
         /\ x.status = 200
         /\ x.veh = veh
         /\ x.trips = trips

\* A trip was created and deleted again, and the vehicles are as at the start.
C2_Witness ==
  /\ last = [op |-> "tripDelete", ok |-> TRUE]
  /\ nreq >= 1
  /\ trips = <<>>
  /\ veh = Vehicle0

\* C3: an accepted Trip update changes the odometer by newDistance -
\* oldDistance and the tank by -(newFuelConsumed - oldFuelConsumed), whatever
\* the vehicle's values are; distance 100 / rate 10 updated to distance 50 /
\* rate 10 changes the tank by +5 and the odometer by -50.
C3_UpdateAppliesDelta ==
  \A u \in Users, v \in VehicleIds, t \in DOMAIN trips, b \in UpdateTripBodies :
    LET r == TripUpdateTx(Store, u, v, t, b.distance, b.consumptionRateUsed, b.other)
    IN r.status = 200 =>
         /\ r.veh[v].appOdometer - veh[v].appOdometer
              = r.trips[t].distance - trips[t].distance
         /\ r.veh[v].appFuelTank - veh[v].appFuelTank
              = -(r.trips[t].fuelConsumed - trips[t].fuelConsumed)
         /\ \A w \in VehicleIds \ {v} : r.veh[w] = veh[w]
         /\ (b.distance # Absent => r.trips[t].distance = b.distance)
         /\ (/\ trips[t].distance = 100 * Scale
             /\ trips[t].consumptionRateUsed = 10
             /\ b = Body(50 * Scale, 10, FALSE)
             => /\ r.veh[v].appFuelTank = veh[v].appFuelTank + 5 * Scale
                /\ r.veh[v].appOdometer = veh[v].appOdometer - 50 * Scale)

\* A trip logged with distance 100 was updated to distance 50 at rate 10,
\* on a vehicle whose tank another trip had already changed.
C3_Witness ==
  /\ last = [op |-> "tripUpdate", ok |-> TRUE]
  /\ \E t \in DOMAIN trips :
       /\ trips[t].distance = 50 * Scale
       /\ trips[t].consumptionRateUsed = 10
       /\ trips[t].momentAppFuelTank # InitFuelTank

\* C8: whenever a Trip create, Trip update or Trip delete changes a vehicle,
\* the requesting user is at that moment its owner or holds an authorization
\* for it; a user without access is answered 403 and the vehicle is unchanged.
C8_AccessCheckedBeforeMutation ==
  \A u \in Users, v \in VehicleIds :
    ~HasAccess(auth, veh, u, v) =>
      /\ \A b \in CreateTripBodies :
           LET r == TripCreateTx(Store, nreq + 1, u, v, b.distance, b.consumptionRateUsed)
           IN r.veh = veh /\ (r.status # 400 => r.status = 403)
      /\ \A t \in DOMAIN trips, b \in UpdateTripBodies :
           trips[t].vehicleId = v =>
             LET r == TripUpdateTx(Store, u, v, t, b.distance, b.consumptionRateUsed, b.other)
             IN r.veh = veh /\ (r.status # 400 => r.status = 403)
      /\ \A t \in DOMAIN trips :
           trips[t].vehicleId = v =>
             LET r == TripDeleteTx(Store, u, v, t)
             IN r.veh = veh /\ r.status = 403

\* A user who logged a trip while authorized has lost the authorization.
C8_Witness ==
  \E t \in DOMAIN trips :
    ~HasAccess(auth, veh, trips[t].userId, trips[t].vehicleId)

\* ------------------------------------------------------------ claims under SpecCreate
V0 == Vehicle0["v1"]
RECURSIVE SumApplied(_, _)
SumApplied(ids, k) ==
  IF ids = {} THEN 0
  ELSE LET x == CHOOSE y \in ids : TRUE
       IN applied[x][k] + SumApplied(ids \ {x}, k)
RowEffect(id) ==
  IF id \in DOMAIN trips THEN <<trips[id].distance, -trips[id].fuelConsumed>>
  ELSE <<0, Volume(fuelings[id].cost, fuelings[id].pricePerLiter)>>
RECURSIVE SumVolume(_)
SumVolume(ids) ==
  IF ids = {} THEN 0
  ELSE LET x == CHOOSE y \in ids : TRUE
       IN Volume(fuelings[x].cost, fuelings[x].pricePerLiter) + SumVolume(ids \ {x})

\* C4: ledger atomicity of Trip create and Fueling create.  A request whose
\* vehicle update failed after its row was written answers with an error
\* and leaves no row; a committed Trip/Fueling row exists exactly when its
\* effect has been applied to the vehicle, the applied effect is the row's
\* own, and the vehicle carries exactly the applied effects.
C4_LedgerAtomicity ==
  /\ \A p \in Procs :
       (procs[p].pc = "done" /\ procs[p].status >= 400) =>
         /\ procs[p].id \notin DOMAIN trips \cup DOMAIN fuelings
         /\ procs[p].id \notin DOMAIN applied
  /\ CommittedTrips \cup CommittedFuelings = DOMAIN applied
  /\ \A id \in DOMAIN applied : applied[id] = RowEffect(id)
  /\ veh["v1"].appOdometer = V0.appOdometer + SumApplied(DOMAIN applied, 1)
  /\ veh["v1"].appFuelTank = V0.appFuelTank + SumApplied(DOMAIN applied, 2)

\* A Trip create and a Fueling create have both failed at the vehicle
\* update, after their rows were written, while another create committed.
C4_Witness ==
  /\ \E p \in Procs : procs[p].pc = "done" /\ procs[p].status = 500
                        /\ procs[p].op = "tripCreate"
  /\ \E p \in Procs : procs[p].pc = "done" /\ procs[p].status = 500
                        /\ procs[p].op = "fuelingCreate"
  /\ DOMAIN applied # {}

\* C5: no lost update between concurrent creates.  In every interleaving
\* of Trip creates and Fueling creates on one vehicle, the odometer is its
\* initial value plus the distances of the committed trips, and the tank
\* is its initial value plus the volumes of the committed fuelings minus
\* the fuelConsumed of the committed trips.
C5_NoLostUpdate ==
  /\ veh["v1"].appOdometer =
       V0.appOdometer + SumOver(trips, CommittedTrips, "distance")
  /\ veh["v1"].appFuelTank =
       V0.appFuelTank + SumVolume(CommittedFuelings)
                      - SumOver(trips, CommittedTrips, "fuelConsumed")

\* A trip and a fueling that overlapped (each read the tank before the
\* other's update) have both committed, and no request is in flight.
C5_Witness ==
  /\ \A p \in Procs : procs[p].pc = "done" /\ procs[p].status \in {200, 201}
  /\ \E t \in CommittedTrips, f \in CommittedFuelings :
       /\ trips[t].momentAppFuelTank = fuelings[f].momentAppFuelTank
       /\ trips[t].fuelConsumed > 0

\* C7: tank snapshot.  Every committed Trip and Fueling stores as
\* momentAppFuelTank the vehicle's tank in the state immediately before its
\* own tank update (tankBefore), also when creates overlap.
C7_TankSnapshot ==
  /\ \A t \in CommittedTrips : trips[t].momentAppFuelTank = trips[t].tankBefore
  /\ \A f \in CommittedFuelings :
       fuelings[f].momentAppFuelTank = fuelings[f].tankBefore

\* Two creates on the same vehicle have committed after overlapping.
C7_Witness ==
  \E f \in CommittedFuelings, t \in CommittedTrips :
    fuelings[f].momentAppFuelTank # fuelings[f].tankBefore
\* ------------------------------------------------------------ claims under SpecEdit
Quiescent == \A p \in Procs : Free(p)

\* C6: concurrent edits of the same trip keep the ledger consistent.  Once
\* every request has finished, the odometer minus its initial value is the
\* sum of distance over the trips that exist, and the tank is its initial
\* value minus the sum of their fuelConsumed.
C6_ConcurrentEditsConsistent ==
  Quiescent =>
    /\ veh["v1"].appOdometer =
         V0.appOdometer + SumOver(trips, DOMAIN trips, "distance")
    /\ veh["v1"].appFuelTank =
         V0.appFuelTank - SumOver(trips, DOMAIN trips, "fuelConsumed")

\* Two PATCH requests on the same trip have both answered 200 and the
\* odometer no longer matches the trips.
C6_Witness ==
  /\ \A p \in Procs : procs[p].pc = "done" /\ procs[p].op = "tripUpdate"
                        /\ procs[p].status = 200
  /\ procs["p1"].id = procs["p2"].id
  /\ veh["v1"].appOdometer # V0.appOdometer + SumOver(trips, DOMAIN trips, "distance")
\* ------------------------------------------------------------ claims under SpecVote
RowsOf(m, id) == {row \in reviews : row.model = m /\ row.proposalId = id}
VotersOf(m, id) == {u \in Users : <<m, id, u>> \in DOMAIN vlog}

\* C9: vote upsert.  After any interleaving of accepted vote submissions,
\* each (proposal, reviewer) pair has at most one Review row; the row's
\* vote is the one that reviewer submitted last for that proposal (so no
\* other reviewer's vote has changed it); and a proposal has as many
\* Review rows as distinct reviewers have voted on it.
C9_VoteUpsert ==
  /\ \A r1 \in reviews, r2 \in reviews :
       SameKey(r1, r2.model, r2.proposalId, r2.reviewerId) => r1 = r2
  /\ \A row \in reviews :
       /\ <<row.model, row.proposalId, row.reviewerId>> \in DOMAIN vlog
       /\ row.vote = vlog[<<row.model, row.proposalId, row.reviewerId>>]
  /\ \A m \in Models, id \in ProposalIds :
       Cardinality(RowsOf(m, id)) = Cardinality(VotersOf(m, id))

\* Two reviewers have voted on the same proposal, one of them twice with
\* different votes, and the second vote is the one stored.
C9_Witness ==
  /\ nvotes = MaxVotes
  /\ \A p \in Procs : vprocs[p].pc = "done" /\ vprocs[p].status = 200
  /\ \A p \in Procs : vprocs[p].proposalId = "gp1"
  /\ vprocs["p1"].reviewerId = vprocs["p2"].reviewerId
  /\ vprocs["p1"].vote # vprocs["p2"].vote
  /\ Cardinality(RowsOf("gasStationProposal", "gp1")) = 2

\* C10: vote preconditions.  A vote on a proposal id that has no row is
\* answered 404 and a vote on a proposal that is not PENDING is answered
\* 409; neither request writes a Review row, and no Review row exists for
\* such a proposal.
C10_VotePreconditions ==
  /\ \A p \in Procs :
       vprocs[p].pc = "done" =>
         LET q == vprocs[p] IN
           /\ q.proposalId \notin DOMAIN proposals[q.model] =>
                 q.status = 404 /\ ~q.wrote
           /\ (q.proposalId \in DOMAIN proposals[q.model]
                 /\ proposals[q.model][q.proposalId].status # "PENDING") =>
                 q.status = 409 /\ ~q.wrote
  /\ \A row \in reviews :
       /\ row.proposalId \in DOMAIN proposals[row.model]
       /\ proposals[row.model][row.proposalId].status = "PENDING"

\* One request was refused with 404 and another with 409, after a vote on
\* a pending proposal had been stored.
C10_Witness ==
  /\ \E p \in Procs : vprocs[p].pc = "done" /\ vprocs[p].status = 404
  /\ \E p \in Procs : vprocs[p].pc = "done" /\ vprocs[p].status = 409
  /\ reviews # {}

\* C11: votes accumulate with no automatic resolution.  The step in which
\* a vote is stored changes the Review row of that (proposal, reviewer)
\* pair and no other; the proposal is PENDING with no resolutionNotes
\* after it, and no proposal, GasStation or StationPrice row changes.
C11_VotesOnlyAccumulate ==
  [][\A p \in Procs :
       (vprocs[p].pc = "upsert" /\ vprocs'[p].pc = "done") =>
         LET q == vprocs[p] IN
           /\ {row \in reviews' : ~SameKey(row, q.model, q.proposalId, q.reviewerId)}
                = {row \in reviews : ~SameKey(row, q.model, q.proposalId, q.reviewerId)}
           /\ proposals'[q.model][q.proposalId].status = "PENDING"
           /\ proposals'[q.model][q.proposalId].resolutionNotes = "null"
           /\ proposals' = proposals
           /\ stations' = stations
           /\ sprices' = sprices]_vars

\* Two reviewers have voted on gp1, one of them PROTEST, and the proposal
\* and its station are as they were.
C11_Witness ==
  /\ \A p \in Procs : vprocs[p].pc = "done" /\ vprocs[p].status = 200
  /\ Cardinality(RowsOf("gasStationProposal", "gp1")) = 2
  /\ \E row \in RowsOf("gasStationProposal", "gp1") : row.vote = "PROTEST"
  /\ \E row \in RowsOf("gasStationProposal", "gp1") : row.vote = "ACCEPT"
  /\ proposals["gasStationProposal"]["gp1"].status = "PENDING"
  /\ stations["s1"].status = "UNDER_REVIEW"

\* The status of the GasStation / StationPrice a proposal refers to.
TargetStatus(m, id) ==
  IF m = "gasStationProposal" THEN stations[proposals[m][id].target].status
  ELSE sprices[proposals[m][id].target].status
Resolved(m, id) ==
  id \in DOMAIN Proposal0[m] /\ Proposal0[m][id].status \in {"VERIFIED", "REJECTED"}

Votes(m, id, v) == Cardinality({row \in RowsOf(m, id) : row.vote = v})
Total(m, id) == Cardinality(RowsOf(m, id))

\* C12: protest short-circuit.  Every proposal that has at least Quorum
\* votes, one of them PROTEST, has status PROTESTED once the vote has been
\* processed, whatever the other votes are.
C12_ProtestShortCircuit ==
  \A tg \in TallyTargets :
    (Total(tg[1], tg[2]) >= Quorum /\ Votes(tg[1], tg[2], "PROTEST") >= 1) =>
      proposals[tg[1]][tg[2]].status = "PROTESTED"

\* Five reviewers have voted on gp1 and one vote is PROTEST.
C12_Witness ==
  /\ Total("gasStationProposal", "gp1") = Quorum
  /\ Votes("gasStationProposal", "gp1", "PROTEST") = 1

\* The outcome the thresholds give a tally without PROTEST.
Outcome(acc, rej) ==
  IF acc + rej < Quorum THEN "PENDING"
  ELSE IF acc * 100 >= ConsensusPct * (acc + rej) THEN "VERIFIED"
  ELSE IF rej * 100 >= ConsensusPct * (acc + rej) THEN "REJECTED"
  ELSE "PENDING"

\* C13: consensus thresholds.  With no PROTEST vote, a proposal's status
\* is the outcome of its tally as soon as the vote is stored: VERIFIED at
\* 3 ACCEPT + 2 REJECT, REJECTED at 2 ACCEPT + 3 REJECT, PENDING below
\* the quorum.
C13_ConsensusThresholds ==
  \A tg \in TallyTargets :
    Votes(tg[1], tg[2], "PROTEST") = 0 =>
      proposals[tg[1]][tg[2]].status =
        Outcome(Votes(tg[1], tg[2], "ACCEPT"), Votes(tg[1], tg[2], "REJECT"))

\* Three ACCEPT and two REJECT votes are stored for the price proposal pp1.
C13_Witness ==
  /\ Votes("stationPriceProposal", "pp1", "ACCEPT") = 3
  /\ Votes("stationPriceProposal", "pp1", "REJECT") = 2
  /\ Votes("stationPriceProposal", "pp1", "PROTEST") = 0

\* ------------------------------------------------------------ claims under SpecStation
PendingOf(m, target) ==
  {x \in ProposalsOf(proposals, m, target) :
     proposals[m][x].committed /\ proposals[m][x].status = "PENDING"}
Targets(m) == IF m = "gasStationProposal" THEN DOMAIN stations ELSE DOMAIN sprices

\* C15: proposal uniqueness.  Each GasStation and each StationPrice is
\* referred to by at most one PENDING proposal, and a request that loses
\* to another proposal of the same target on the unique constraint is
\* answered 409.
C15_ProposalUniqueness ==
  /\ \A m \in Models : \A target \in Targets(m) : Cardinality(PendingOf(m, target)) <= 1
  /\ \A p \in Procs :
       (sprocs[p].pc = "done" /\ sprocs[p].conflict) => sprocs[p].status = 409

\* Two propose-edit requests for station s3 have run together: one created
\* the proposal, the other met the unique constraint.
C15_Witness ==
  /\ \A p \in Procs : sprocs[p].pc = "done" /\ sprocs[p].op = "proposeEdit"
                        /\ sprocs[p].stationId = "s3"
  /\ \E p \in Procs : sprocs[p].status = 200
  /\ \E p \in Procs : sprocs[p].conflict
  /\ Cardinality(PendingOf("gasStationProposal", "s3")) = 1

CreatedStations == Visible(stations) \ DOMAIN Station0
CreatedPrices == Visible(sprices) \ DOMAIN Price0
\* The target has exactly one proposal: PENDING, INITIAL_CREATION.
OneInitialProposal(m, target) ==
  LET rows == {x \in ProposalsOf(proposals, m, target) : proposals[m][x].committed}
  IN /\ Cardinality(rows) = 1
     /\ \A x \in rows : /\ proposals[m][x].status = "PENDING"
                         /\ proposals[m][x].reasonType = "INITIAL_CREATION"
\* The ids of the rows a create-station or report-price request writes.
RowsOfRequest(q) ==
  {q.stationId, NewId("ng", q.n)} \cup NewPriceIds(q)
    \cup {"n" \o y : y \in NewPriceIds(q)}

\* C16: creation binds entity and proposal atomically.  Every station and
\* price created by create-station or report-price is UNDER_REVIEW and has
\* exactly one proposal, PENDING and INITIAL_CREATION; every such proposal
\* has its target; a request that failed has left no row at all.
C16_CreationBindsProposal ==
  /\ \A x \in CreatedStations :
       stations[x].status = "UNDER_REVIEW" /\ OneInitialProposal("gasStationProposal", x)
  /\ \A x \in CreatedPrices :
       sprices[x].status = "UNDER_REVIEW" /\ OneInitialProposal("stationPriceProposal", x)
  /\ \A m \in Models : \A x \in Visible(proposals[m]) :
       proposals[m][x].reasonType = "INITIAL_CREATION" =>
         proposals[m][x].target \in
           (IF m = "gasStationProposal" THEN Visible(stations) ELSE Visible(sprices))
  /\ \A p \in Procs :
       (sprocs[p].pc = "done" /\ sprocs[p].status >= 400
          /\ sprocs[p].op \in {"createStation", "reportPrice"}) =>
         LET ids == RowsOfRequest(sprocs[p]) \ DOMAIN Station0
         IN /\ ids \cap DOMAIN stations = {}
            /\ ids \cap DOMAIN sprices = {}
            /\ \A m \in Models : ids \cap DOMAIN proposals[m] = {}

\* A station was created with an initial price, and another creation was
\* rolled back.
C16_Witness ==
  /\ \E p \in Procs : /\ sprocs[p].pc = "done" /\ sprocs[p].op = "createStation"
                        /\ sprocs[p].status = 201 /\ Len(sprocs[p].items) = 1
  /\ \E p \in Procs : /\ sprocs[p].pc = "done" /\ sprocs[p].status = 500
                        /\ sprocs[p].op \in {"createStation", "reportPrice"}

\* C17: propose edit.  A propose-edit request without price edits for a
\* station id that has no row is answered 404 and creates nothing; for a
\* station that has a PENDING proposal it is answered 409 and creates
\* nothing; for any other station it succeeds and creates one proposal:
\* PENDING, DATA_UPDATE, proposedData the submitted changes.
C17_ProposeEdit ==
  \A p \in Procs :
    (sprocs[p].pc = "done" /\ sprocs[p].op = "proposeEdit" /\ sprocs[p].items = <<>>) =>
      LET q == sprocs[p] IN
        IF q.stationId \notin DOMAIN stations THEN q.status = 404 /\ q.made = "none"
        ELSE IF q.hadPending THEN q.status = 409 /\ q.made = "none"
        ELSE /\ q.status = 200
             /\ q.made \in DOMAIN proposals["gasStationProposal"]
             /\ proposals["gasStationProposal"][q.made] =
                  ProposalRow(q.stationId, "PENDING", "DATA_UPDATE", q.changes)

\* A propose-edit for station s1, whose creation proposal is PENDING, has
\* been answered.
C17_Witness ==
  \E p \in Procs : /\ sprocs[p].pc = "done" /\ sprocs[p].op = "proposeEdit"
                    /\ sprocs[p].stationId = "s1" /\ sprocs[p].items = <<>>
                    /\ sprocs[p].hadPending

\* C18: propose edit is all-or-nothing.  A propose-edit request that
\* failed has left no station edit proposal.
C18_ProposeEditAllOrNothing ==
  \A p \in Procs :
    (sprocs[p].pc = "done" /\ sprocs[p].op = "proposeEdit" /\ sprocs[p].status >= 400) =>
      sprocs[p].made \notin DOMAIN proposals["gasStationProposal"]

\* A propose-edit with a price edit for station s3 has failed after its
\* station proposal was created.
C18_Witness ==
  \E p \in Procs : /\ sprocs[p].pc = "done" /\ sprocs[p].op = "proposeEdit"
                    /\ sprocs[p].stationId = "s3" /\ sprocs[p].items # <<>>
                    /\ sprocs[p].status = 500 /\ sprocs[p].made # "none"

\* ------------------------------------------------------------ claims under SpecFuel
\* The prices of station st for fuel type ft that no other such price is
\* reported after.
LatestPrices(st, ft) ==
  {sprices[x].price : x \in {x \in DOMAIN sprices :
      /\ sprices[x].gasStationId = st /\ sprices[x].fuelTypeId = ft
      /\ ~\E y \in DOMAIN sprices :
            /\ sprices[y].gasStationId = st /\ sprices[y].fuelTypeId = ft
            /\ sprices[y].reportedAt > sprices[x].reportedAt}}
HasReportedPrice(st, ft) == st # "none" /\ LatestPrices(st, ft) # {}
\* The response and store a log-fueling request would leave now.
FuelingNow(u, v, c, p, st, ft) == FuelingCreateTx(Store, nreq + 1, u, v, c, p, st, ft)

\* C19: fueling volume and price resolution.  A created fueling adds
\* cost / resolvedPricePerLiter to the tank and stores that price; without
\* a station the price is the caller's (100 at 5 adds 20 L); with a station
\* that has a price for the fuel type it is the one reported last,
\* whatever the caller sent (100 at station s1's 4 adds 25 L).
C19_FuelingPriceResolution ==
  \A u \in Users, v \in LedgerVehicles, c \in CostInputs, p \in PriceInputs,
     st \in StationInputs, ft \in FuelTypeInputs :
    LET res == FuelingNow(u, v, c, p, st, ft)
        id == nreq + 1
        added == res.veh[v].appFuelTank - veh[v].appFuelTank
    IN res.status = 201 =>
         /\ id \in DOMAIN res.fuelings \ DOMAIN fuelings
         /\ added = (c * Scale) \div res.fuelings[id].pricePerLiter
         /\ IF HasReportedPrice(st, ft)
            THEN res.fuelings[id].pricePerLiter \in LatestPrices(st, ft)
            ELSE res.fuelings[id].pricePerLiter = p
         /\ (st = "none" /\ c = 100 /\ p = 5) => added = 20 * Scale
         /\ (st = "s1" /\ ft = "f1" /\ c = 100) =>
              added = 25 * Scale /\ res.fuelings[id].pricePerLiter = 4

\* Two fuelings of cost 100 were logged, one at the caller's price 5 and
\* one at station s1's latest price 4: the tank holds 45 L more.
C19_Witness ==
  /\ last = [op |-> "fuelingCreate", ok |-> TRUE]
  /\ DOMAIN fuelings = {1, 2}
  /\ {fuelings[f].pricePerLiter : f \in DOMAIN fuelings} = {4, 5}
  /\ veh["v1"].appFuelTank = InitFuelTank + 45 * Scale

\* C20: fueling without a resolvable price.  A log-fueling request by a
\* user with access, without pricePerLiter, with no station or with a
\* station that has no price for the fuel type, is answered 400, creates
\* no row and leaves the tank as it was.
C20_NoPriceIs400 ==
  \A u \in Users, v \in LedgerVehicles, c \in CostInputs,
     st \in StationInputs, ft \in FuelTypes :
    LET res == FuelingNow(u, v, c, Absent, st, ft)
    IN (HasAccess(auth, veh, u, v) /\ ~HasReportedPrice(st, ft)
          /\ (st = "none" \/ st \in DOMAIN stations)) =>
         /\ res.status = 400
         /\ res.fuelings = fuelings
         /\ res.veh = veh

\* A log-fueling request has failed, and one for station s2, which has no
\* price, without pricePerLiter is answered 500.
C20_Witness ==
  /\ last = [op |-> "fuelingCreate", ok |-> FALSE]
  /\ \E u \in Users :
       /\ HasAccess(auth, veh, u, "v1")
       /\ LET res == FuelingNow(u, "v1", 100, Absent, "s2", "f1")
          IN res.status = 500 /\ res.fuelings = fuelings /\ res.veh = veh

\* C21: fueling delete does not reverse the ledger.  A successful fueling
\* delete removes one Fueling row and nothing else: every vehicle's
\* appFuelTank and appOdometer are as before.
C21_FuelingDeleteKeepsLedger ==
  [][(last'.op = "fuelingDelete" /\ last'.ok /\ fuelings' # fuelings) =>
       /\ veh' = veh
       /\ trips' = trips
       /\ \E f \in DOMAIN fuelings :
            fuelings' = [x \in DOMAIN fuelings \ {f} |-> fuelings[x]]]_vars

\* A fueling of 25 L was logged and then deleted: no row is left and the
\* tank still holds the 25 L.
C21_Witness ==
  /\ last = [op |-> "fuelingDelete", ok |-> TRUE]
  /\ nreq = 1
  /\ DOMAIN fuelings = {}
  /\ veh["v1"].appFuelTank = InitFuelTank + 25 * Scale

\* C22: fueling update triggers a ledger delta.  A successful fueling
\* update that changes the row's cost or pricePerLiter changes the
\* vehicle's appFuelTank by new cost / new price - old cost / old price.
C22_FuelingUpdateDelta ==
  [][(last'.op = "fuelingUpdate" /\ last'.ok) =>
       \A f \in DOMAIN fuelings \cap DOMAIN fuelings' :
         fuelings'[f] # fuelings[f] =>
           LET v == fuelings[f].vehicleId
           IN veh'[v].appFuelTank =
                veh[v].appFuelTank
                  + Volume(fuelings'[f].cost, fuelings'[f].pricePerLiter)
                  - Volume(fuelings[f].cost, fuelings[f].pricePerLiter)]_vars

\* A fueling of 100 at 5 (20 L) was updated to cost 200 at 4 (50 L) and
\* the tank still holds the 20 L of the create.
C22_Witness ==
  /\ last = [op |-> "fuelingUpdate", ok |-> TRUE]
  /\ nreq = 1
  /\ 1 \in DOMAIN fuelings
  /\ fuelings[1].cost = 200 /\ fuelings[1].pricePerLiter = 4
  /\ veh["v1"].appFuelTank = InitFuelTank + 20 * Scale

\* ------------------------------------------------------------ claims under SpecTrip
\* C23: trip create validation.  A log-trip request by a user of the
\* vehicle with distance <= 0, consumptionRateUsed <= 0, or a fuelConsumed
\* that rounds to 0 is answered 400 and writes no Trip row and no change
\* to the vehicle.
C23_TripCreateValidation ==
  [][(/\ last'.op = "tripCreate"
      /\ last'.req.access
      /\ LET b == last'.req.body
         IN \/ b.distance <= 0
            \/ b.consumptionRateUsed <= 0
            \/ FuelConsumed(b.distance, b.consumptionRateUsed) <= 0)
     => (last'.status = 400 /\ trips' = trips /\ veh' = veh)]_vars

\* A trip of 10^-5 km at 10 km/L was logged: it is stored with
\* fuelConsumed 0 and the odometer has moved.
C23_Witness ==
  /\ last.op = "tripCreate"
  /\ last.req.body = Body(1, 10, TRUE)
  /\ last.status = 200
  /\ nreq \in DOMAIN trips
  /\ trips[nreq].fuelConsumed = 0
  /\ veh["v1"].appOdometer = InitOdometer + 1

\* The step is a trip update or delete by the trip's creator under the
\* trip's own vehicle.
OwnTripStep(op) ==
  /\ last'.op = op
  /\ auth' = auth
  /\ last'.req.t \in DOMAIN trips
  /\ trips[last'.req.t].vehicleId = last'.req.v
  /\ trips[last'.req.t].userId = last'.req.u
\* The value a PATCH leaves in a field: the body's, or the stored one.
Patched(sent, stored) == IF sent # Absent THEN sent ELSE stored

\* C24: trip update validation applies nothing on failure.  A trip update
\* that sends distance or consumptionRateUsed and whose recomputed
\* fuelConsumed is not positive is answered 400 and changes neither the
\* Trip row nor the vehicle.
C24_TripUpdateValidation ==
  [][(/\ OwnTripStep("tripUpdate")
      /\ LET b == last'.req.body
             cur == trips[last'.req.t]
             d == Patched(b.distance, cur.distance)
             r == Patched(b.consumptionRateUsed, cur.consumptionRateUsed)
         IN /\ b.distance # Absent \/ b.consumptionRateUsed # Absent
            /\ d <= 0 \/ r <= 0 \/ FuelConsumed(d, r) <= 0)
     => (last'.status = 400 /\ trips' = trips /\ veh' = veh)]_vars

\* A trip was updated to a distance of 10^-5 km: the row now has
\* fuelConsumed 0 and the request was answered 200.
C24_Witness ==
  /\ last.op = "tripUpdate"
  /\ last.req.body = Body(1, Absent, FALSE)
  /\ last.status = 200
  /\ last.req.t \in DOMAIN trips
  /\ trips[last.req.t].distance = 1
  /\ trips[last.req.t].fuelConsumed = 0

\* C26: trip update of non-ledger fields is ledger-neutral.  A trip update
\* that sends only startTime, endTime, routePath or notes leaves every
\* trip's distance, fuelConsumed and momentAppFuelTank and every vehicle's
\* appOdometer and appFuelTank as they were.
C26_NonLedgerUpdateNeutral ==
  [][(/\ last'.op = "tripUpdate"
      /\ auth' = auth
      /\ last'.req.body = Body(Absent, Absent, TRUE))
     => /\ veh' = veh
        /\ DOMAIN trips' = DOMAIN trips
        /\ \A t \in DOMAIN trips :
             /\ trips'[t].distance = trips[t].distance
             /\ trips'[t].fuelConsumed = trips[t].fuelConsumed
             /\ trips'[t].momentAppFuelTank = trips[t].momentAppFuelTank]_vars

\* The creator of a trip of 100 km has updated its notes and was answered
\* 200; the vehicle shows the one trip.
C26_Witness ==
  /\ last.op = "tripUpdate"
  /\ last.req.body = Body(Absent, Absent, TRUE)
  /\ last.status = 200
  /\ last.req.t \in DOMAIN trips
  /\ trips[last.req.t].distance = 100 * Scale
  /\ veh["v1"].appOdometer = InitOdometer + 100 * Scale
  /\ veh["v1"].appFuelTank = InitFuelTank - 10 * Scale

\* The body passes updateTripSchema.
ValidUpdateBody(b) ==
  /\ b.distance = Absent \/ b.distance > 0
  /\ b.consumptionRateUsed = Absent \/ b.consumptionRateUsed > 0
  /\ b.distance # Absent \/ b.consumptionRateUsed # Absent \/ b.other
\* The step is a well-formed trip update, or a delete, that names a stored
\* trip.
EditStep ==
  /\ last'.op \in {"tripUpdate", "tripDelete"}
  /\ last'.op = "tripUpdate" => ValidUpdateBody(last'.req.body)
  /\ auth' = auth
  /\ last'.req.t \in DOMAIN trips

\* C27: ledger adjustments target the trip's own vehicle.  A trip update or
\* delete changes only the vehicle the trip is stored under, and only for
\* the user who created the trip; a well-formed request under another
\* vehicle's path is answered 400, from another user 403, and then no Trip
\* row and no vehicle changes.
C27_EditsTargetOwnVehicle ==
  [][/\ (last'.op \in {"tripUpdate", "tripDelete"} /\ auth' = auth /\ veh' # veh) =>
          /\ last'.req.t \in DOMAIN trips
          /\ trips[last'.req.t].userId = last'.req.u
          /\ trips[last'.req.t].vehicleId = last'.req.v
          /\ \A v \in VehicleIds : veh'[v] # veh[v] => v = trips[last'.req.t].vehicleId
     /\ (EditStep /\ trips[last'.req.t].vehicleId # last'.req.v) =>
          (last'.status = 400 /\ trips' = trips /\ veh' = veh)
     /\ (EditStep /\ trips[last'.req.t].vehicleId = last'.req.v
                  /\ trips[last'.req.t].userId # last'.req.u) =>
          (last'.status = 403 /\ trips' = trips /\ veh' = veh)]_vars

\* The owner u1 asked to update or delete a trip that the authorized user
\* u2 logged on v1 and was answered 403; the trip and its effect remain.
C27_Witness ==
  /\ last.op \in {"tripUpdate", "tripDelete"}
  /\ last.status = 403
  /\ last.req.u = "u1" /\ last.req.v = "v1"
  /\ last.req.t \in DOMAIN trips
  /\ trips[last.req.t].userId = "u2"
  /\ veh["v1"].appOdometer = InitOdometer + trips[last.req.t].distance

\* C29: no lower bound on the tank.  A well-formed trip create by a user of
\* the vehicle, and a well-formed trip update by the trip's creator, is
\* accepted whatever the tank holds, and takes the fuel consumed (or its
\* increase) out of appFuelTank even when that leaves it negative.
C29_NoLowerBoundOnTank ==
  [][/\ (/\ last'.op = "tripCreate" /\ auth' = auth /\ last'.req.access
         /\ last'.req.body.distance > 0 /\ last'.req.body.consumptionRateUsed > 0) =>
          LET b == last'.req.body
              v == last'.req.v
          IN /\ last'.status = 200
             /\ veh'[v].appFuelTank =
                  veh[v].appFuelTank - FuelConsumed(b.distance, b.consumptionRateUsed)
     /\ (OwnTripStep("tripUpdate") /\ ValidUpdateBody(last'.req.body)) =>
          LET b == last'.req.body
              cur == trips[last'.req.t]
              d == Patched(b.distance, cur.distance)
              r == Patched(b.consumptionRateUsed, cur.consumptionRateUsed)
          IN /\ last'.status = 200
             /\ veh'[cur.vehicleId].appFuelTank =
                  veh[cur.vehicleId].appFuelTank - (FuelConsumed(d, r) - cur.fuelConsumed)]_vars

\* A trip on v1 was set to 600 km at 10 km/L by an update: the tank, which
\* held 50 L, now holds -10 L.
C29_Witness ==
  /\ last.op = "tripUpdate"
  /\ last.status = 200
  /\ last.req.body = Body(600 * Scale, Absent, FALSE)
  /\ last.req.t \in DOMAIN trips
  /\ trips[last.req.t].fuelConsumed = 60 * Scale
  /\ veh["v1"].appFuelTank = InitFuelTank - 60 * Scale
  /\ veh["v1"].appFuelTank < 0

\* ------------------------------------------------------------ error classification (SpecStation)
\* The status each kind of store error is to reach the caller with.
StatusOfKind(k) ==
  CASE k \in {"P2002", "P2003"} -> 409
    [] k = "P2025" -> 404
    [] OTHER -> 500

\* C25: stable status classification of store errors.  A station request
\* in which the store raised an error is answered with the status of the
\* error's kind: 409 for a uniqueness or foreign-key violation, 404 for a
\* missing record, 500 for anything else.
C25_StoreErrorStatus ==
  \A p \in Procs :
    (sprocs[p].pc = "done" /\ sprocs[p].error # "none") =>
      sprocs[p].status = StatusOfKind(sprocs[p].error)

\* One request met the unique constraint (P2002) and another a foreign-key
\* violation (P2003); both were answered 500.
C25_Witness ==
  /\ \E p \in Procs : /\ sprocs[p].pc = "done" /\ sprocs[p].error = "P2002"
                        /\ sprocs[p].status = 500
  /\ \E p \in Procs : /\ sprocs[p].pc = "done" /\ sprocs[p].error = "P2003"
                        /\ sprocs[p].status = 500

\* ------------------------------------------------------------ claims under SpecLedger
LedgerOps == {"tripCreate", "tripUpdate", "tripDelete", "fuelingCreate"}

\* C28: ledger fields are written only by ledger operations.  A step that
\* changes a vehicle's appOdometer or appFuelTank is a trip create, update
\* or delete or a fueling create.
C28_LedgerFieldsWriters ==
  [][(\E v \in DOMAIN veh :
        \/ veh'[v].appOdometer # veh[v].appOdometer
        \/ veh'[v].appFuelTank # veh[v].appFuelTank)
     => last'.op \in LedgerOps]_vars

\* No trip or fueling was ever logged, and after a vehicle PATCH the
\* odometer of v1 reads 7 km.
C28_Witness ==
  /\ last.op = "vehicleUpdate"
  /\ last.status = 200
  /\ nreq = 0
  /\ veh["v1"].appOdometer = 7 * Scale
  /\ veh["v1"].appFuelTank = InitFuelTank

\* ------------------------------------------------------------ claims under SpecVehicle
\* C30: basic-plan vehicle limit.  In every reachable state a user whose
\* role is BASIC_USER owns at most one vehicle; and a vehicle-create request
\* of a basic user who owned a vehicle when it began is answered 403 and
\* created nothing.  Requests of the same user may run concurrently.
C30_BasicPlanVehicleLimit ==
  /\ \A u \in VehicleUsers :
       RoleOf[u] = basicRole => vehicleCount(veh, u) <= 1
  /\ \A p \in Procs :
       (procs[p].pc = "done" /\ procs[p].op = "vehicleCreate"
          /\ RoleOf[procs[p].u] = basicRole /\ procs[p].owned >= 1)
       => (procs[p].status = 403 /\ procs[p].v = "none")

\* Two requests of the basic user u3, with different plates, were both
\* answered 201 and u3 owns two vehicles.
C30_Witness ==
  /\ \A p \in Procs : /\ procs[p].pc = "done" /\ procs[p].op = "vehicleCreate"
                        /\ procs[p].u = "u3" /\ procs[p].status = 201
  /\ procs["p1"].plate # procs["p2"].plate
  /\ vehicleCount(veh, "u3") = 2
====
